---- MODULE Spec2Model ----
(***************************************************************************)
(* Model of the assembly constraint resolver of the SimVex 3D viewer        *)
(* (src/utils/assemblyConstraintResolver.ts): the part registry, the mesh,  *)
(* bounding-box and resolved-position caches, and the operations on them.   *)
(*                                                                          *)
(* Numbers.  THREE.Vector3 is a triple of integers <<x, y, z>>.  The        *)
(* fraction threadDepth is held in tenths (0.8 is 8, the default 0.5 is 5)  *)
(* and every mesh height is a multiple of 10, so rodHeight * depth is       *)
(* exact.  Angles are drawn from the values whose sine and cosine are       *)
(* exact in floating point (0 degrees).                                     *)
(*                                                                          *)
(* Optional fields.  An absent vector is <<>>, an absent name is "" (also   *)
(* falsy in the source), an absent number is <<>> and a present one <<n>>.  *)
(* An absent constraint is the record whose type is "undefined".            *)
(***************************************************************************)
EXTENDS Integers, Sequences, FiniteSets, TLC

VARIABLES parts, resolvedPositions, meshCache, boundingBoxCache, ret, calls

vars == <<parts, resolvedPositions, meshCache, boundingBoxCache, ret, calls>>

\* the state of the useModelAnimations_ai hook
VARIABLES aiResult, error, useFallback, positions

hookVars == <<aiResult, error, useFallback, positions>>

\* the props and the state of the ModelGroup_ai component; pending holds the
\* effects React has still to run after the last change of their dependencies
VARIABLES machinery, explodeFactor, meshCount, resolvedPositionsState, globalScale, pending

groupVars == <<machinery, explodeFactor, meshCount, resolvedPositionsState, globalScale, pending>>

\* the last call of a stateless calculator, with its arguments and its result
VARIABLE call

\* a second resolver constructed from the same parts array: the array as it
\* was passed, and the second resolver's resolved-position cache
VARIABLE other

\* the AI assembly service: its memory cache, localStorage, and the last
\* answer of analyzeAssembly
VARIABLE service

\* what the resolver's own operations leave alone
outside == <<hookVars, groupVars, call, other, service>>

allVars == <<vars, hookVars, groupVars, call, other, service>>

(***************************************************************************)
(* Bounds                                                                   *)
(***************************************************************************)
\* number of API calls made on one resolver in a run
MaxCalls == 3
\* depth of the JavaScript call stack available to resolvePosition; a
\* recursion deeper than this ends in a RangeError (stack overflow)
MaxDepth == 4

(***************************************************************************)
(* Values                                                                   *)
(***************************************************************************)
NoVec == <<>>
NoNum == <<>>
NoName == ""
Zero == <<0, 0, 0>>

Add(a, b) == <<a[1] + b[1], a[2] + b[2], a[3] + b[3]>>
MultiplyScalar(v, s) == <<v[1] * s, v[2] * s, v[3] * s>>

\* `v || [0, 0, 0]`
OrZero(v) == IF v = NoVec THEN Zero ELSE v
\* the default taken whatever the field holds
OrDefaultAlways(n, d) == d

\* `n ?? d`
OrDefault(n, d) == IF n = NoNum THEN d ELSE n[1]

PartNames == {"BASE", "ROD", "NUT"}
\* a name that is in no registry
Unregistered == "GHOST"
Names == PartNames \cup {Unregistered}
\* insertion order of the parts Map (the order of the constructor's array)
PartOrder == <<"BASE", "ROD", "NUT">>

Con(t, ref, off, depth, ang, rad) ==
    [type |-> t,
     parentPart |-> IF t = "StackedOn" THEN ref ELSE NoName,
     threadedOn |-> IF t = "Threaded" THEN ref ELSE NoName,
     centerPart |-> IF t = "RadialAroundCenter" THEN ref ELSE NoName,
     offset |-> off, threadDepth |-> depth, angle |-> ang, radius |-> rad]

NoConstraint == Con("undefined", NoName, NoVec, NoNum, NoNum, NoNum)

NoBox == [min |-> NoVec, max |-> NoVec]

\* the geometry of each part's mesh at unit scale (Box3.setFromObject with
\* mesh.scale = (1, 1, 1))
PartMesh ==
    [n \in Names |->
        CASE n = "BASE" -> [min |-> <<-4, -1, -4>>, max |-> <<4, 5, 4>>]
          [] n = "ROD"  -> [min |-> <<-1, 0, -1>>, max |-> <<1, 20, 1>>]
          [] n = "NUT"  -> [min |-> <<-2, -1, -2>>, max |-> <<2, 4, 2>>]
          [] OTHER      -> [min |-> <<0, 0, 0>>, max |-> <<1, 10, 1>>]]

\* Box3.getSize
GetSize(box) == <<box.max[1] - box.min[1], box.max[2] - box.min[2], box.max[3] - box.min[3]>>

\* cosine and sine of an angle in degrees, for the angles the model draws
CosDeg(a) == CASE a = 0 -> 1
SinDeg(a) == CASE a = 0 -> 0

(***************************************************************************)
(* Position resolution.  A call returns [ok, pos, cache]: ok is FALSE when  *)
(* the recursion ran out of stack (RangeError), pos is the vector returned  *)
(* and cache the resolved-position cache the call leaves behind.            *)
(***************************************************************************)
Returned(pos, cache) == [ok |-> TRUE, pos |-> pos, cache |-> cache]

\* a guard that ends a runaway recursion with the zero vector
GuardedZero(cache) == Returned(Zero, cache)

\* the recursion exhausts the stack: the RangeError unwinds every frame and
\* leaves the cache as the completed calls left it
Thrown(cache) == [ok |-> FALSE, pos |-> NoVec, cache |-> cache]

\* a missing reference raised as an exception
MissingPartThrows(cache) == Thrown(cache)

\* a constraint that names no part, or a part the registry does not hold:
\* console.error and `return new THREE.Vector3(0, 0, 0)`
MissingPart(cache) == Returned(Zero, cache)

\* the parent's height taken for the stacking offset, the child's bottom ignored
AutoOffsetYParentOnly(parentTopY, childBottomY) == parentTopY

\* autoOffsetY = parentTopY - childBottomY
AutoOffsetY(parentTopY, childBottomY) == parentTopY - childBottomY

\* the manual offset added on top of the automatic one
FinalOffsetYAdds(manualY, autoY) == manualY + autoY

\* finalOffsetY = manualOffset[1] !== 0 ? manualOffset[1] : autoOffsetY
FinalOffsetY(manualY, autoY) == IF manualY # 0 THEN manualY ELSE autoY

\* a fresh vector is stored in place of the position computed
CachePutFresh(cache, name, pos) == [cache EXCEPT ![name] = Zero]

\* this.resolvedPositions.set(part.name, position)
CachePut(cache, name, pos) == [cache EXCEPT ![name] = pos]

\* an empty resolved-position cache
EmptyPositions == [n \in PartNames |-> NoVec]

getPartSize(boxes, name) ==
    IF boxes[name] = NoBox THEN Zero ELSE GetSize(boxes[name])

getPartHeight(boxes, name) == getPartSize(boxes, name)[2]

RECURSIVE resolvePosition(_, _, _, _, _)
RECURSIVE resolveStackedOn(_, _, _, _, _, _)
RECURSIVE resolveThreaded(_, _, _, _, _, _)
RECURSIVE resolveRadial(_, _, _, _, _, _)

resolveStackedOn(name, c, ps, cache, boxes, depth) ==
    LET parentName == c.parentPart IN
    IF parentName = NoName THEN MissingPart(cache)
    ELSE IF parentName \notin PartNames THEN MissingPart(cache)
    ELSE
        LET r == resolvePosition(parentName, ps, cache, boxes, depth + 1)
            manualOffset == OrZero(c.offset)
            parentBox == boxes[parentName]
        IN
        IF ~r.ok THEN r
        ELSE IF parentBox = NoBox THEN
            LET height == getPartHeight(boxes, parentName) IN
            Returned(Add(r.pos, <<manualOffset[1], height + manualOffset[2], manualOffset[3]>>),
                     r.cache)
        ELSE
            LET parentTopY == parentBox.max[2]
                childBox == boxes[name]
                childBottomY == IF childBox # NoBox THEN childBox.min[2] ELSE 0
                autoOffsetY == AutoOffsetY(parentTopY, childBottomY)
                finalOffsetY == FinalOffsetY(manualOffset[2], autoOffsetY)
            IN
            Returned(Add(r.pos, <<manualOffset[1], finalOffsetY, manualOffset[3]>>), r.cache)

resolveThreaded(name, c, ps, cache, boxes, depth) ==
    LET threadedPartName == c.threadedOn IN
    IF threadedPartName = NoName THEN MissingPart(cache)
    ELSE IF threadedPartName \notin PartNames THEN MissingPart(cache)
    ELSE
        LET r == resolvePosition(threadedPartName, ps, cache, boxes, depth + 1)
            rodHeight == getPartHeight(boxes, threadedPartName)
            depthTenths == OrDefault(c.threadDepth, 5)
            offset == OrZero(c.offset)
        IN
        IF ~r.ok THEN r
        ELSE Returned(Add(Add(r.pos, <<0, (rodHeight * depthTenths) \div 10, 0>>), offset),
                      r.cache)

resolveRadial(name, c, ps, cache, boxes, depth) ==
    LET centerPartName == c.centerPart IN
    IF centerPartName = NoName THEN MissingPart(cache)
    ELSE IF centerPartName \notin PartNames THEN MissingPart(cache)
    ELSE
        LET r == resolvePosition(centerPartName, ps, cache, boxes, depth + 1)
            angle == OrDefault(c.angle, 0)
            radius == OrDefault(c.radius, 5)
            offset == OrZero(c.offset)
            x == CosDeg(angle) * radius
            z == SinDeg(angle) * radius
        IN
        IF ~r.ok THEN r
        ELSE Returned(Add(Add(r.pos, <<x, 0, z>>), offset), r.cache)

resolvePosition(name, ps, cache, boxes, depth) ==
    IF depth > MaxDepth THEN Thrown(cache)
    ELSE IF cache[name] # NoVec THEN Returned(cache[name], cache)
    ELSE
        LET constraint == ps[name].constraint IN
        IF constraint.type = "undefined" THEN
            LET pos == OrZero(ps[name].assemblyOffset) IN
            Returned(pos, CachePut(cache, name, pos))
        ELSE
            LET r == CASE constraint.type = "Fixed" ->
                            Returned(OrZero(constraint.offset), cache)
                       [] constraint.type = "StackedOn" ->
                            resolveStackedOn(name, constraint, ps, cache, boxes, depth)
                       [] constraint.type = "Threaded" ->
                            resolveThreaded(name, constraint, ps, cache, boxes, depth)
                       [] constraint.type = "RadialAroundCenter" ->
                            resolveRadial(name, constraint, ps, cache, boxes, depth)
                       [] OTHER -> Returned(Zero, cache)
            IN
            IF ~r.ok THEN r
            ELSE Returned(r.pos, CachePut(r.cache, name, r.pos))

RECURSIVE resolveEach(_, _, _, _, _)

\* the loop leaves after the first part
resolveEachOnce(order, i, ps, cache, boxes) ==
    IF i > Len(order) THEN Returned(NoVec, cache)
    ELSE resolvePosition(order[i], ps, cache, boxes, 1)

RECURSIVE resolveEachShallow(_, _, _, _, _)

\* the loop with no recursion into parents: a parent not yet visited is
\* taken at the origin
resolveEachShallow(order, i, ps, cache, boxes) ==
    IF i > Len(order) THEN Returned(NoVec, cache)
    ELSE
        LET seen == [n \in PartNames |->
                        IF cache[n] = NoVec /\ n # order[i] THEN Zero ELSE cache[n]]
            r == resolvePosition(order[i], ps, seen, boxes, 1)
        IN
        IF ~r.ok THEN r
        ELSE resolveEachShallow(order, i + 1, ps, CachePut(cache, order[i], r.pos), boxes)

\* the loop of resolveAll over the parts in the given order, from index i
resolveEach(order, i, ps, cache, boxes) ==
    IF i > Len(order) THEN Returned(NoVec, cache)
    ELSE
        LET r == resolvePosition(order[i], ps, cache, boxes, 1) IN
        IF ~r.ok THEN r
        ELSE resolveEach(order, i + 1, ps, r.cache, boxes)

\* resolveAll: clear, resolve every part, return a copy of the map
resolveAll(order, ps, boxes) == resolveEach(order, 1, ps, EmptyPositions, boxes)

(***************************************************************************)
(* Inputs                                                                   *)
(***************************************************************************)
Part(con, off, ground) == [constraint |-> con, assemblyOffset |-> off, isGround |-> ground]

\* the parts arrays a resolver is constructed from: a chain (ROD stacked on
\* an unconstrained BASE, NUT threaded on ROD) and a catalog whose BASE is
\* Fixed, whose ROD has only a literal assemblyOffset and whose NUT is
\* stacked on BASE
ChainRegistry ==
    [n \in PartNames |->
        CASE n = "BASE" -> Part(NoConstraint, NoVec, TRUE)
          [] n = "ROD"  -> Part(Con("StackedOn", "BASE", <<0, 0, 0>>, NoNum, NoNum, NoNum),
                                <<0, 3, 0>>, FALSE)
          [] n = "NUT"  -> Part(Con("Threaded", "ROD", NoVec, <<8>>, NoNum, NoNum),
                                <<0, 16, 0>>, FALSE)]

StackRegistry ==
    [n \in PartNames |->
        CASE n = "BASE" -> Part(Con("Fixed", NoName, <<0, 0, 0>>, NoNum, NoNum, NoNum),
                                <<0, 0, 0>>, TRUE)
          [] n = "ROD"  -> Part(NoConstraint, <<0, 3, 0>>, FALSE)
          [] n = "NUT"  -> Part(Con("StackedOn", "BASE", NoVec, NoNum, NoNum, NoNum),
                                <<0, 16, 0>>, FALSE)]

Registries == {ChainRegistry, StackRegistry}

\* the constraints updatePartConstraint is called with
AIConstraints ==
    { Con("Fixed", NoName, <<0, 30, 0>>, NoNum, NoNum, NoNum),
      Con("StackedOn", "BASE", NoVec, NoNum, NoNum, NoNum),
      Con("StackedOn", "ROD", <<1, 0, 2>>, NoNum, NoNum, NoNum),
      Con("StackedOn", "NUT", <<0, 5, 0>>, NoNum, NoNum, NoNum),
      Con("Threaded", "ROD", <<0, 2, 0>>, NoNum, NoNum, NoNum),
      Con("RadialAroundCenter", "BASE", <<0, 2, 0>>, NoNum, <<0>>, <<35>>),
      Con("StackedOn", Unregistered, <<0, 8, 0>>, NoNum, NoNum, NoNum),
      Con("Threaded", NoName, NoVec, <<9>>, NoNum, NoNum),
      Con("RadialAroundCenter", NoName, NoVec, NoNum, NoNum, NoNum),
      Con("Welded", NoName, <<0, 4, 0>>, NoNum, NoNum, NoNum) }

LogicalScales == {1, 2}
GlobalScales == {1, 2}

\* what a caller does to a vector or to a box corner it was handed
Nudge == <<0, 10, 0>>

(***************************************************************************)
(* The value of the last call.  alias is TRUE when the object handed out    *)
(* is the cache's own object and FALSE when it is a copy.  Two fields keep  *)
(* the history the properties speak of: after is the operation of the call  *)
(* before this one when that call was on the same part ("" otherwise), and  *)
(* orig is the vector that call left: the position it returned, the         *)
(* position a caller's mutation replaced, or the cached position that       *)
(* updatePartConstraint dropped.                                            *)
(***************************************************************************)
NoBoxes == [n \in Names |-> NoBox]

NoRet == [op |-> "new", part |-> NoName, ok |-> TRUE, pos |-> NoVec,
          map |-> EmptyPositions, box |-> NoBox, boxes |-> NoBoxes,
          alias |-> FALSE, after |-> "", orig |-> NoVec]

\* the object itself handed out where a copy was meant
CloneShares(handle) == handle

\* `.clone()`: the copy is a new object
Clone(handle) == [handle EXCEPT !.alias = FALSE]

\* the cache's own object
Live(handle) == [handle EXCEPT !.alias = TRUE]

\* a resolver on its own: no component is mounted and no calculator is called
NoResult == [parts |-> <<>>, assemblyOrder |-> <<>>]
NoMachinery == [id |-> "", name |-> ""]
NoCall == [fn |-> "none"]
NoOther == [given |-> <<>>, resolvedPositions |-> <<>>]
NoService == [cache |-> <<>>, storage |-> <<>>, op |-> "new", id |-> "",
              answer |-> NoResult, cached |-> FALSE, afterClear |-> FALSE]

Unmounted ==
    /\ aiResult = NoResult
    /\ error = ""
    /\ useFallback = FALSE
    /\ positions = <<>>
    /\ machinery = NoMachinery
    /\ explodeFactor = 0
    /\ meshCount = 0
    /\ resolvedPositionsState = EmptyPositions
    /\ globalScale = 1
    /\ pending = {}

Init ==
    /\ parts \in Registries
    /\ resolvedPositions = EmptyPositions
    /\ meshCache = NoBoxes
    /\ boundingBoxCache = NoBoxes
    /\ ret = NoRet
    /\ calls = 0
    /\ Unmounted
    /\ call = NoCall
    /\ other = NoOther
    /\ service = NoService

(***************************************************************************)
(* Operations                                                               *)
(***************************************************************************)
\* updatePartConstraint that leaves the part's cached position in place
UpdatePartConstraintKeeps(partName, constraint) ==
    /\ calls < MaxCalls
    /\ calls' = calls + 1
    /\ IF partName \in PartNames
       THEN parts' = [parts EXCEPT ![partName].constraint = constraint]
       ELSE UNCHANGED parts
    /\ ret' = [NoRet EXCEPT !.op = "updatePartConstraint", !.part = partName,
                            !.ok = (partName \in PartNames),
                            !.orig = IF partName \in PartNames
                                     THEN resolvedPositions[partName] ELSE NoVec]
    /\ UNCHANGED <<resolvedPositions, meshCache, boundingBoxCache>>
    /\ UNCHANGED outside

\* updatePartConstraint that clears the whole resolved-position cache
UpdatePartConstraintClears(partName, constraint) ==
    /\ calls < MaxCalls
    /\ calls' = calls + 1
    /\ IF partName \in PartNames
       THEN /\ parts' = [parts EXCEPT ![partName].constraint = constraint]
            /\ resolvedPositions' = EmptyPositions
       ELSE UNCHANGED <<parts, resolvedPositions>>
    /\ ret' = [NoRet EXCEPT !.op = "updatePartConstraint", !.part = partName,
                            !.ok = (partName \in PartNames),
                            !.orig = IF partName \in PartNames
                                     THEN resolvedPositions[partName] ELSE NoVec]
    /\ UNCHANGED <<meshCache, boundingBoxCache>>
    /\ UNCHANGED outside

UpdatePartConstraint(partName, constraint) ==
    /\ calls < MaxCalls
    /\ calls' = calls + 1
    /\ IF partName \in PartNames
       THEN /\ parts' = [parts EXCEPT ![partName].constraint = constraint]
            /\ resolvedPositions' = [resolvedPositions EXCEPT ![partName] = NoVec]
       ELSE UNCHANGED <<parts, resolvedPositions>>
    /\ ret' = [NoRet EXCEPT !.op = "updatePartConstraint", !.part = partName,
                            !.ok = (partName \in PartNames),
                            !.orig = IF partName \in PartNames
                                     THEN resolvedPositions[partName] ELSE NoVec]
    /\ UNCHANGED <<meshCache, boundingBoxCache>>
    /\ UNCHANGED outside

\* the box registerMesh and setGlobalScale measure and scale
ScaledBox(mesh, scale) ==
    [min |-> MultiplyScalar(mesh.min, scale), max |-> MultiplyScalar(mesh.max, scale)]

RegisterMesh(partName, logicalScale) ==
    /\ calls < MaxCalls
    /\ calls' = calls + 1
    /\ meshCache' = [meshCache EXCEPT ![partName] = PartMesh[partName]]
    /\ boundingBoxCache' =
          [boundingBoxCache EXCEPT ![partName] =
              IF logicalScale # 1 THEN ScaledBox(PartMesh[partName], logicalScale)
              ELSE PartMesh[partName]]
    /\ resolvedPositions' = EmptyPositions
    /\ ret' = [NoRet EXCEPT !.op = "registerMesh", !.part = partName]
    /\ UNCHANGED parts
    /\ UNCHANGED outside

SetGlobalScale(scale) ==
    /\ calls < MaxCalls
    /\ calls' = calls + 1
    /\ boundingBoxCache' =
          [n \in Names |->
              IF meshCache[n] # NoBox THEN ScaledBox(meshCache[n], scale)
              ELSE boundingBoxCache[n]]
    /\ resolvedPositions' = EmptyPositions
    /\ ret' = [NoRet EXCEPT !.op = "setGlobalScale"]
    /\ UNCHANGED <<parts, meshCache>>
    /\ UNCHANGED outside

GetBoundingBox(partName) ==
    /\ calls < MaxCalls
    /\ calls' = calls + 1
    /\ ret' = Live([NoRet EXCEPT !.op = "getBoundingBox", !.part = partName,
                                 !.box = boundingBoxCache[partName]])
    /\ UNCHANGED <<parts, resolvedPositions, meshCache, boundingBoxCache>>
    /\ UNCHANGED outside

GetAllBoundingBoxes ==
    /\ calls < MaxCalls
    /\ calls' = calls + 1
    /\ ret' = Clone(Live([NoRet EXCEPT !.op = "getAllBoundingBoxes",
                                       !.boxes = boundingBoxCache]))
    /\ UNCHANGED <<parts, resolvedPositions, meshCache, boundingBoxCache>>
    /\ UNCHANGED outside

\* the history fields of a call on partName, from the call before it
After(partName) == IF ret.part = partName THEN ret.op ELSE ""

Carried(partName) ==
    CASE ret.part = partName /\ ret.op = "resolvePosition" -> ret.pos
      [] ret.part = partName
           /\ ret.op \in {"updatePartConstraint", "mutateVector", "mutateMap", "deleteMapKey"}
         -> ret.orig
      [] OTHER -> NoVec

ResolvePosition(partName) ==
    /\ calls < MaxCalls
    /\ calls' = calls + 1
    /\ LET r == resolvePosition(partName, parts, resolvedPositions, boundingBoxCache, 1) IN
       /\ resolvedPositions' = r.cache
       /\ ret' = Clone(Live([NoRet EXCEPT !.op = "resolvePosition", !.part = partName,
                                          !.ok = r.ok, !.pos = r.pos,
                                          !.after = After(partName),
                                          !.orig = Carried(partName)]))
    /\ UNCHANGED <<parts, meshCache, boundingBoxCache>>
    /\ UNCHANGED outside

ResolveAll ==
    /\ calls < MaxCalls
    /\ calls' = calls + 1
    /\ LET r == resolveAll(PartOrder, parts, boundingBoxCache) IN
       /\ resolvedPositions' = r.cache
       /\ ret' = Live([NoRet EXCEPT !.op = "resolveAll", !.ok = r.ok,
                                    !.after = After(NoName),
                                    !.map = IF r.ok THEN r.cache ELSE EmptyPositions])
    /\ UNCHANGED <<parts, meshCache, boundingBoxCache>>
    /\ UNCHANGED outside

ClearCache ==
    /\ calls < MaxCalls
    /\ calls' = calls + 1
    /\ resolvedPositions' = EmptyPositions
    /\ meshCache' = NoBoxes
    /\ boundingBoxCache' = NoBoxes
    /\ ret' = [NoRet EXCEPT !.op = "clearCache"]
    /\ UNCHANGED parts
    /\ UNCHANGED outside

\* the caller changes the vector resolvePosition returned
MutateVector ==
    /\ ret.op = "resolvePosition"
    /\ ret.ok
    /\ ret' = [ret EXCEPT !.op = "mutateVector", !.pos = Add(ret.pos, Nudge),
                          !.orig = ret.pos]
    /\ resolvedPositions' =
          IF ret.alias THEN [resolvedPositions EXCEPT ![ret.part] = Add(ret.pos, Nudge)]
          ELSE resolvedPositions
    /\ UNCHANGED <<parts, meshCache, boundingBoxCache, calls>>
    /\ UNCHANGED outside

\* the caller changes a box getBoundingBox or getAllBoundingBoxes returned
MutateBox(partName) ==
    /\ \/ ret.op = "getBoundingBox" /\ ret.part = partName /\ ret.box # NoBox
       \/ ret.op = "getAllBoundingBoxes" /\ ret.boxes[partName] # NoBox
    /\ LET old == IF ret.op = "getBoundingBox" THEN ret.box ELSE ret.boxes[partName]
           new == [old EXCEPT !.max = Add(old.max, Nudge)]
       IN
       /\ ret' = [ret EXCEPT !.op = "mutateBox", !.part = partName, !.box = new]
       /\ boundingBoxCache' =
             IF ret.alias THEN [boundingBoxCache EXCEPT ![partName] = new]
             ELSE boundingBoxCache
    /\ UNCHANGED <<parts, resolvedPositions, meshCache, calls>>
    /\ UNCHANGED outside

Next ==
    \/ \E n \in Names, c \in AIConstraints : UpdatePartConstraint(n, c)
    \/ \E n \in Names, s \in LogicalScales : RegisterMesh(n, s)
    \/ \E s \in GlobalScales : SetGlobalScale(s)
    \/ \E n \in Names : GetBoundingBox(n)
    \/ GetAllBoundingBoxes
    \/ \E n \in PartNames : ResolvePosition(n)
    \/ ResolveAll
    \/ ClearCache
    \/ MutateVector
    \/ \E n \in Names : MutateBox(n)

Spec == Init /\ [][Next]_vars

(***************************************************************************)
(* The earlier variant of the resolver that the repository also holds       *)
(* (registerMesh(partName, mesh) without scale handling, stacking by the    *)
(* parent's height, no updatePartConstraint and no setGlobalScale).         *)
(***************************************************************************)
RECURSIVE resolvePositionLegacy(_, _, _, _, _)
RECURSIVE resolveStackedOnLegacy(_, _, _, _, _, _)
RECURSIVE resolveThreadedLegacy(_, _, _, _, _, _)
RECURSIVE resolveRadialLegacy(_, _, _, _, _, _)

resolveStackedOnLegacy(name, c, ps, cache, boxes, depth) ==
    LET parentName == c.parentPart IN
    IF parentName = NoName THEN MissingPart(cache)
    ELSE IF parentName \notin PartNames THEN MissingPart(cache)
    ELSE
        LET r == resolvePositionLegacy(parentName, ps, cache, boxes, depth + 1)
            manualOffset == OrZero(c.offset)
            autoOffsetY == IF manualOffset[2] # 0 THEN manualOffset[2]
                           ELSE getPartHeight(boxes, parentName)
        IN
        IF ~r.ok THEN r
        ELSE Returned(Add(r.pos, <<manualOffset[1], autoOffsetY, manualOffset[3]>>), r.cache)

resolveThreadedLegacy(name, c, ps, cache, boxes, depth) ==
    LET threadedPartName == c.threadedOn IN
    IF threadedPartName = NoName THEN MissingPart(cache)
    ELSE IF threadedPartName \notin PartNames THEN MissingPart(cache)
    ELSE
        LET r == resolvePositionLegacy(threadedPartName, ps, cache, boxes, depth + 1)
            rodHeight == getPartHeight(boxes, threadedPartName)
            depthTenths == OrDefault(c.threadDepth, 5)
            offset == OrZero(c.offset)
        IN
        IF ~r.ok THEN r
        ELSE Returned(Add(Add(r.pos, <<0, (rodHeight * depthTenths) \div 10, 0>>), offset),
                      r.cache)

resolveRadialLegacy(name, c, ps, cache, boxes, depth) ==
    LET centerPartName == c.centerPart IN
    IF centerPartName = NoName THEN MissingPart(cache)
    ELSE IF centerPartName \notin PartNames THEN MissingPart(cache)
    ELSE
        LET r == resolvePositionLegacy(centerPartName, ps, cache, boxes, depth + 1)
            angle == OrDefault(c.angle, 0)
            radius == OrDefault(c.radius, 5)
            offset == OrZero(c.offset)
            x == CosDeg(angle) * radius
            z == SinDeg(angle) * radius
        IN
        IF ~r.ok THEN r
        ELSE Returned(Add(Add(r.pos, <<x, 0, z>>), offset), r.cache)

resolvePositionLegacy(name, ps, cache, boxes, depth) ==
    IF depth > MaxDepth THEN Thrown(cache)
    ELSE IF cache[name] # NoVec THEN Returned(cache[name], cache)
    ELSE
        LET constraint == ps[name].constraint IN
        IF constraint.type = "undefined" THEN
            LET pos == OrZero(ps[name].assemblyOffset) IN
            Returned(pos, CachePut(cache, name, pos))
        ELSE
            LET r == CASE constraint.type = "Fixed" ->
                            Returned(OrZero(constraint.offset), cache)
                       [] constraint.type = "StackedOn" ->
                            resolveStackedOnLegacy(name, constraint, ps, cache, boxes, depth)
                       [] constraint.type = "Threaded" ->
                            resolveThreadedLegacy(name, constraint, ps, cache, boxes, depth)
                       [] constraint.type = "RadialAroundCenter" ->
                            resolveRadialLegacy(name, constraint, ps, cache, boxes, depth)
                       [] OTHER -> Returned(Zero, cache)
            IN
            IF ~r.ok THEN r
            ELSE Returned(r.pos, CachePut(r.cache, name, r.pos))

RECURSIVE resolveEachLegacy(_, _, _, _, _)
resolveEachLegacy(order, i, ps, cache, boxes) ==
    IF i > Len(order) THEN Returned(NoVec, cache)
    ELSE
        LET r == resolvePositionLegacy(order[i], ps, cache, boxes, 1) IN
        IF ~r.ok THEN r
        ELSE resolveEachLegacy(order, i + 1, ps, r.cache, boxes)

resolveAllLegacy(order, ps, boxes) == resolveEachLegacy(order, 1, ps, EmptyPositions, boxes)

\* registerMesh(partName, mesh): the box is measured and cached; the
\* resolved positions are left as they are
RegisterMeshLegacy(partName) ==
    /\ calls < MaxCalls
    /\ calls' = calls + 1
    /\ meshCache' = [meshCache EXCEPT ![partName] = PartMesh[partName]]
    /\ boundingBoxCache' = [boundingBoxCache EXCEPT ![partName] = PartMesh[partName]]
    /\ ret' = [NoRet EXCEPT !.op = "registerMesh", !.part = partName]
    /\ UNCHANGED <<parts, resolvedPositions>>
    /\ UNCHANGED outside

ResolvePositionLegacy(partName) ==
    /\ calls < MaxCalls
    /\ calls' = calls + 1
    /\ LET r == resolvePositionLegacy(partName, parts, resolvedPositions,
                                      boundingBoxCache, 1) IN
       /\ resolvedPositions' = r.cache
       /\ ret' = Clone(Live([NoRet EXCEPT !.op = "resolvePosition", !.part = partName,
                                          !.ok = r.ok, !.pos = r.pos,
                                          !.after = After(partName),
                                          !.orig = Carried(partName)]))
    /\ UNCHANGED <<parts, meshCache, boundingBoxCache>>
    /\ UNCHANGED outside

ResolveAllLegacy ==
    /\ calls < MaxCalls
    /\ calls' = calls + 1
    /\ LET r == resolveAllLegacy(PartOrder, parts, boundingBoxCache) IN
       /\ resolvedPositions' = r.cache
       /\ ret' = Live([NoRet EXCEPT !.op = "resolveAll", !.ok = r.ok,
                                    !.after = After(NoName),
                                    !.map = IF r.ok THEN r.cache ELSE EmptyPositions])
    /\ UNCHANGED <<parts, meshCache, boundingBoxCache>>
    /\ UNCHANGED outside

NextLegacy ==
    \/ \E n \in Names : RegisterMeshLegacy(n)
    \/ \E n \in Names : GetBoundingBox(n)
    \/ GetAllBoundingBoxes
    \/ \E n \in PartNames : ResolvePositionLegacy(n)
    \/ ResolveAllLegacy
    \/ ClearCache
    \/ MutateVector
    \/ \E n \in Names : MutateBox(n)

SpecLegacy == Init /\ [][NextLegacy]_vars

(***************************************************************************)
(* Text.  A string whose characters matter is the sequence of its           *)
(* characters, each a one-character string.                                 *)
(***************************************************************************)
UpperLetters == <<"A", "B", "C", "D", "E", "F", "G", "H", "I", "J", "K", "L", "M",
                  "N", "O", "P", "Q", "R", "S", "T", "U", "V", "W", "X", "Y", "Z">>
LowerLetters == <<"a", "b", "c", "d", "e", "f", "g", "h", "i", "j", "k", "l", "m",
                  "n", "o", "p", "q", "r", "s", "t", "u", "v", "w", "x", "y", "z">>

\* String.prototype.toLowerCase
toLowerCase(s) ==
    [i \in 1..Len(s) |->
        IF \E k \in 1..Len(UpperLetters) : UpperLetters[k] = s[i]
        THEN LowerLetters[CHOOSE k \in 1..Len(UpperLetters) : UpperLetters[k] = s[i]]
        ELSE s[i]]

\* the characters the pattern /[\s\-_]/g removes
Separators == {" ", "-", "_"}

IsKept(c) == c \notin Separators

\* normalize = s => s.toLowerCase().replace(/[\s\-_]/g, '')
normalize(s) == SelectSeq(toLowerCase(s), IsKept)

\* String.prototype.includes
includes(s, t) == \E i \in 0..(Len(s) - Len(t)) : SubSeq(s, i + 1, i + Len(t)) = t

\* the callback of machinery.parts.find: the part's name matches the AI id
MatchesId(name, aiId) ==
    LET pNorm == normalize(name)
        aiIdNorm == normalize(aiId)
    IN pNorm = aiIdNorm \/ includes(pNorm, aiIdNorm) \/ includes(aiIdNorm, pNorm)

\* machinery.parts.find(...) over the parts' names in catalog order: the
\* index of the first part that matches, 0 when find returns undefined
findOriginalPart(names, aiId) ==
    IF \E i \in 1..Len(names) : MatchesId(names[i], aiId)
    THEN CHOOSE i \in 1..Len(names) :
            /\ MatchesId(names[i], aiId)
            /\ \A j \in 1..(i - 1) : ~MatchesId(names[j], aiId)
    ELSE 0

(***************************************************************************)
(* The mate transform calculator (src/utils/mateTransform.ts).  A unit      *)
(* quaternion is held as integer components with the square of their        *)
(* length: [v |-> <<x, y, z, w>>, n2 |-> n] stands for v / sqrt(n).  Face   *)
(* normals are the six unit vectors along the axes, for which every         *)
(* rotation below maps integer vectors to integer vectors.                  *)
(***************************************************************************)
Sub(a, b) == <<a[1] - b[1], a[2] - b[2], a[3] - b[3]>>
Negate(a) == <<-a[1], -a[2], -a[3]>>
Dot(a, b) == a[1] * b[1] + a[2] * b[2] + a[3] * b[3]
Cross(a, b) == <<a[2] * b[3] - a[3] * b[2], a[3] * b[1] - a[1] * b[3], a[1] * b[2] - a[2] * b[1]>>
Abs(x) == IF x < 0 THEN -x ELSE x

Identity == [v |-> <<0, 0, 0, 1>>, n2 |-> 1]

\* Quaternion.normalize, on the components and their squared length
Normalized(x, y, z, w) ==
    LET n2 == x * x + y * y + z * z + w * w IN
    IF n2 = 0 THEN Identity
    ELSE IF n2 = 4 THEN [v |-> <<x \div 2, y \div 2, z \div 2, w \div 2>>, n2 |-> 1]
    ELSE [v |-> <<x, y, z, w>>, n2 |-> n2]

\* Quaternion.setFromUnitVectors(vFrom, vTo)
setFromUnitVectors(vFrom, vTo) ==
    LET r == Dot(vFrom, vTo) + 1 IN
    IF r < 1 THEN
        IF Abs(vFrom[1]) > Abs(vFrom[3])
        THEN Normalized(-vFrom[2], vFrom[1], 0, 0)
        ELSE Normalized(0, -vFrom[3], vFrom[2], 0)
    ELSE LET c == Cross(vFrom, vTo) IN Normalized(c[1], c[2], c[3], r)

\* Vector3.applyQuaternion: v + (2w (u x v) + 2 u x (u x v)) / |q|^2
applyQuaternion(vec, q) ==
    LET u == <<q.v[1], q.v[2], q.v[3]>>
        w == q.v[4]
        uv == Cross(u, vec)
        uuv == Cross(u, uv)
        twice == Add(MultiplyScalar(uv, 2 * w), MultiplyScalar(uuv, 2))
    IN Add(vec, <<twice[1] \div q.n2, twice[2] \div q.n2, twice[3] \div q.n2>>)

Face(normal, center) == [normal |-> normal, center |-> center]

\* `undefined` where a Face is expected
NoFace == Face(NoVec, NoVec)

Succeeded(position, rotation) ==
    [position |-> position, rotation |-> rotation, success |-> TRUE, error |-> ""]

\* { position: [0, 0, 0], rotation: [0, 0, 0, 1], success: false, error }
Failed(message) ==
    [position |-> Zero, rotation |-> Identity, success |-> FALSE, error |-> message]

calculateCoincidentMate(faceA, faceB, flip, offset) ==
    IF faceA = NoFace \/ faceB = NoFace
    THEN Failed("Coincident mate calculation failed: TypeError")
    ELSE
        LET targetNormal == IF flip THEN faceA.normal ELSE Negate(faceA.normal)
            quaternion == setFromUnitVectors(faceB.normal, targetNormal)
            rotatedCenterB == applyQuaternion(faceB.center, quaternion)
            translation == Sub(faceA.center, rotatedCenterB)
        IN
        Succeeded(IF offset # 0 THEN Add(translation, MultiplyScalar(targetNormal, offset))
                  ELSE translation,
                  quaternion)

calculateParallelMate(faceA, faceB, sameDirection) ==
    IF faceA = NoFace \/ faceB = NoFace
    THEN Failed("Parallel mate calculation failed: TypeError")
    ELSE
        LET targetNormal == IF sameDirection THEN faceA.normal ELSE Negate(faceA.normal) IN
        Succeeded(Zero, setFromUnitVectors(faceB.normal, targetNormal))

calculatePerpendicularMate(faceA, faceB) ==
    IF faceA = NoFace \/ faceB = NoFace
    THEN Failed("Perpendicular mate calculation failed: TypeError")
    ELSE
        LET normalA == faceA.normal
            \* Math.abs(normalA.x) < 0.9, for integer components
            perpendicular == IF Abs(normalA[1]) < 1 THEN <<1, 0, 0>> ELSE <<0, 1, 0>>
            projected == MultiplyScalar(normalA, Dot(perpendicular, normalA))
            \* the difference is a unit vector already for normals along the axes
            targetNormal == Sub(perpendicular, projected)
        IN
        Succeeded(Zero, setFromUnitVectors(faceB.normal, targetNormal))

\* a stub that reports success with the identity transform
calculateConcentricMateSucceeds(faceA, faceB) == Succeeded(Zero, Identity)

calculateConcentricMate(faceA, faceB) == Failed("Concentric mate not implemented yet")

calculateDistanceMate(faceA, faceB, distance) ==
    calculateCoincidentMate(faceA, faceB, FALSE, distance)

\* a mate; flip is FALSE and offset 0 where the source leaves them undefined
\* (`flip: boolean = false`, `mate.offset || 0`)
Mate(type, partA, faceA, partB, faceB, flip, offset) ==
    [type |-> type, partA |-> partA, faceA |-> faceA, partB |-> partB, faceB |-> faceB,
     flip |-> flip, offset |-> offset]

calculateMateTransform(mate, faceA, faceB) ==
    CASE mate.type = "coincident" -> calculateCoincidentMate(faceA, faceB, mate.flip, mate.offset)
      [] mate.type = "parallel" -> calculateParallelMate(faceA, faceB, TRUE)
      [] mate.type = "perpendicular" -> calculatePerpendicularMate(faceA, faceB)
      [] mate.type = "concentric" -> calculateConcentricMate(faceA, faceB)
      [] mate.type = "distance" -> calculateDistanceMate(faceA, faceB, mate.offset)
      [] OTHER -> Failed("Unknown mate type: " \o mate.type)

(***************************************************************************)
(* The assembly player (src/utils/assemblyPlayer.ts).  The explode factor   *)
(* is held in tenths (0.5 is 5) and the positions the player returns in     *)
(* tenths of a unit, so that the interpolation is exact.                    *)
(***************************************************************************)
\* the faces of the assembly's parts (PartWithFaces.faces), by face id
PartFaces ==
    [n \in PartNames |->
        CASE n = "BASE" -> [top |-> Face(<<0, 1, 0>>, <<0, 5, 0>>),
                            side |-> Face(<<1, 0, 0>>, <<4, 2, 0>>)]
          [] n = "ROD"  -> [top |-> Face(<<0, 1, 0>>, <<0, 20, 0>>),
                            bottom |-> Face(<<0, -1, 0>>, <<0, 0, 0>>)]
          [] n = "NUT"  -> [bottom |-> Face(<<0, -1, 0>>, <<0, -1, 0>>),
                            side |-> Face(<<-1, 0, 0>>, <<-2, 1, 0>>)]]

Assembly(basePart, mates) == [basePart |-> basePart, parts |-> PartFaces, mates |-> mates]

\* getFace: null for an unknown part, undefined for an unknown face
getFace(assembly, partId, faceId) ==
    IF partId \notin DOMAIN assembly.parts THEN NoFace
    ELSE IF faceId \notin DOMAIN assembly.parts[partId] THEN NoFace
    ELSE assembly.parts[partId][faceId]

\* calculateExplodedPosition(assembledPos, face, distance)
calculateExplodedPosition(assembledPos, face, distance) ==
    Add(assembledPos, MultiplyScalar(face.normal, -distance))

\* Vector3.lerpVectors(v1, v2, alpha) with alpha in tenths: the result in
\* tenths of a unit
lerpVectors(v1, v2, alphaTenths) ==
    Add(MultiplyScalar(v1, 10), MultiplyScalar(Sub(v2, v1), alphaTenths))

\* a part the positions map has no entry for
NoPlacement == [position |-> NoVec, rotation |-> Identity]

RECURSIVE placeMates(_, _, _, _)
\* assembly.mates.forEach of calculatePositionsAtFactor, from mate i
placeMates(assembly, i, factor, placed) ==
    IF i > Len(assembly.mates) THEN placed
    ELSE
        LET mate == assembly.mates[i]
            faceA == getFace(assembly, mate.partA, mate.faceA)
            faceB == getFace(assembly, mate.partB, mate.faceB)
            transform == calculateMateTransform(mate, faceA, faceB)
        IN
        IF faceA = NoFace \/ faceB = NoFace THEN placeMates(assembly, i + 1, factor, placed)
        ELSE IF ~transform.success THEN placeMates(assembly, i + 1, factor, placed)
        ELSE
            LET assembledPos == transform.position
                explodedPos == calculateExplodedPosition(assembledPos, faceB, 10)
                finalPos == lerpVectors(assembledPos, explodedPos, factor)
            IN
            placeMates(assembly, i + 1, factor,
                       [placed EXCEPT ![mate.partB] =
                           [position |-> finalPos, rotation |-> transform.rotation]])

calculatePositionsAtFactor(assembly, factor) ==
    placeMates(assembly, 1, factor,
               [n \in PartNames |->
                   IF n = assembly.basePart THEN [position |-> Zero, rotation |-> Identity]
                   ELSE NoPlacement])

(***************************************************************************)
(* The assembly and explode sequences of the player.  Positions are in      *)
(* units, times and durations in seconds.  A step carries the index of its  *)
(* mate in assembly.mates in place of the mate's id.                        *)
(***************************************************************************)
\* createAssemblyStep returned null
NoStep == [stepNumber |-> 0, mateId |-> 0, partId |-> NoName, duration |-> 0,
           keyframes |-> <<>>]

\* partPositions and partRotations with no entry but the base part's
BaseOnly(assembly) ==
    [n \in Names |->
        IF n = assembly.basePart THEN [position |-> Zero, rotation |-> Identity]
        ELSE NoPlacement]

Keyframe(time, partId, position, rotation) ==
    [time |-> time, partId |-> partId, position |-> position, rotation |-> rotation]

\* createAssemblyStep for the mate at index stepNumber (from 0): the step, or
\* NoStep, and the placements it leaves
createAssemblyStep(mate, assembly, placed, stepNumber, duration) ==
    LET faceA == getFace(assembly, mate.partA, mate.faceA)
        faceB == getFace(assembly, mate.partB, mate.faceB)
        transform == calculateMateTransform(mate, faceA, faceB)
    IN
    IF placed[mate.partA].position = NoVec THEN [step |-> NoStep, placed |-> placed]
    ELSE IF faceA = NoFace \/ faceB = NoFace THEN [step |-> NoStep, placed |-> placed]
    ELSE IF ~transform.success THEN [step |-> NoStep, placed |-> placed]
    ELSE
        LET positionB == transform.position
            rotationB == transform.rotation
        IN
        [step |->
            [stepNumber |-> stepNumber + 1, mateId |-> stepNumber + 1,
             partId |-> mate.partB, duration |-> duration,
             keyframes |->
                << Keyframe(stepNumber * duration, mate.partB,
                            calculateExplodedPosition(positionB, faceB, 10), rotationB),
                   Keyframe(stepNumber * duration + duration, mate.partB,
                            positionB, rotationB) >>],
         placed |-> [placed EXCEPT ![mate.partB] =
                        [position |-> positionB, rotation |-> rotationB]]]

RECURSIVE pushSteps(_, _, _, _, _)

RECURSIVE pushStepsUntilFailure(_, _, _, _, _)

\* the loop that ends at the first mate that yields no step
pushStepsUntilFailure(assembly, i, stepDuration, placed, steps) ==
    IF i > Len(assembly.mates) THEN steps
    ELSE
        LET made == createAssemblyStep(assembly.mates[i], assembly, placed, i - 1,
                                       stepDuration)
        IN
        IF made.step = NoStep THEN steps
        ELSE pushStepsUntilFailure(assembly, i + 1, stepDuration, made.placed,
                                   Append(steps, made.step))

\* assembly.mates.forEach of generateAssemblySequence, from mate i
pushSteps(assembly, i, stepDuration, placed, steps) ==
    IF i > Len(assembly.mates) THEN steps
    ELSE
        LET made == createAssemblyStep(assembly.mates[i], assembly, placed, i - 1,
                                       stepDuration)
        IN
        pushSteps(assembly, i + 1, stepDuration, made.placed,
                  IF made.step = NoStep THEN steps ELSE Append(steps, made.step))

RECURSIVE SumDurations(_, _)
\* steps.reduce((sum, step) => sum + step.duration, 0)
SumDurations(steps, i) ==
    IF i > Len(steps) THEN 0 ELSE steps[i].duration + SumDurations(steps, i + 1)

generateAssemblySequence(assembly, stepDuration) ==
    LET steps == pushSteps(assembly, 1, stepDuration, BaseOnly(assembly), <<>>) IN
    [steps |-> steps, totalDuration |-> SumDurations(steps, 1)]

\* Array.prototype.reverse
Reverse(seq) == [i \in 1..Len(seq) |-> seq[Len(seq) + 1 - i]]

\* generateExplodeSequence, from the assembly sequence it generates first:
\* step.keyframes.reverse() reverses the step's own array, so
\* step.keyframes[0] in the callback is the first keyframe of the reversed
\* array
generateExplodeSequence(assemblySeq, stepDuration) ==
    LET reversed == Reverse(assemblySeq.steps)
        explodeSteps ==
            [k \in 1..Len(reversed) |->
                LET step == reversed[k]
                    index == k - 1
                    keyframes == Reverse(step.keyframes)
                IN
                [step EXCEPT
                    !.stepNumber = index + 1,
                    !.keyframes =
                        [j \in 1..Len(keyframes) |->
                            [keyframes[j] EXCEPT
                                !.time = index * stepDuration
                                           + (keyframes[j].time - keyframes[1].time)]]]]
    IN
    [steps |-> explodeSteps, totalDuration |-> assemblySeq.totalDuration]

(***************************************************************************)
(* The calculators, each called once on inputs drawn from small sets        *)
(***************************************************************************)
\* the declared MateType values and one that is not declared
MateTypes == {"coincident", "parallel", "perpendicular", "concentric", "tangent",
              "distance", "gear"}

AxisNormals == {<<1, 0, 0>>, <<-1, 0, 0>>, <<0, 1, 0>>, <<0, -1, 0>>, <<0, 0, 1>>, <<0, 0, -1>>}
FaceCenters == {<<0, 0, 0>>, <<2, 5, -1>>}
Faces == {Face(n, c) : n \in AxisNormals, c \in FaceCenters} \cup {NoFace}
MateOffsets == {0, 3}

\* explode factors 0, 0.5 and 1, in tenths
Factors == {0, 5, 10}

\* stepDuration, in seconds (1.0 is the default)
StepDurations == {1, 2}

\* the mates the assemblies are built from
SomeMates ==
    { Mate("coincident", "BASE", "top", "ROD", "bottom", FALSE, 0),
      Mate("coincident", "ROD", "top", "NUT", "bottom", FALSE, 0),
      Mate("coincident", "BASE", "side", "NUT", "side", TRUE, 2),
      Mate("distance", "BASE", "top", "NUT", "bottom", FALSE, 3),
      Mate("coincident", "ROD", "bottom", "BASE", "top", FALSE, 0),
      Mate("parallel", "BASE", "top", "NUT", "side", FALSE, 0),
      Mate("perpendicular", "BASE", "top", "ROD", "top", FALSE, 0),
      Mate("concentric", "BASE", "top", "ROD", "bottom", FALSE, 0),
      Mate("tangent", "BASE", "top", "NUT", "bottom", FALSE, 0),
      Mate("coincident", "BASE", "bottom", "ROD", "bottom", FALSE, 0),
      Mate("coincident", "BASE", "top", Unregistered, "bottom", FALSE, 0) }

MateLists == {<<>>} \cup {<<m>> : m \in SomeMates} \cup {<<m, k>> : m, k \in SomeMates}

\* part names of the catalog (src/data/machineryData.ts), in catalog order
EngineNames ==
    << <<"R", "o", "d", " ", "C", "a", "p">>,
      <<"C", "o", "n", "n", "e", "c", "t", "i", "n", "g", " ", "R", "o", "d">>,
      <<"P", "i", "s", "t", "o", "n", " ", "P", "i", "n">>,
      <<"P", "i", "s", "t", "o", "n">>,
      <<"P", "i", "s", "t", "o", "n", " ", "R", "i", "n", "g">> >>
DroneNames ==
    << <<"M", "a", "i", "n", " ", "F", "r", "a", "m", "e">>,
      <<"M", "a", "i", "n", " ", "F", "r", "a", "m", "e", " ", "M", "i", "r", "r", "o", "r">>,
      <<"A", "r", "m", " ", "G", "e", "a", "r", " ", "F", "R">> >>
SuspensionNames ==
    << <<"B", "A", "S", "E">>,
      <<"S", "P", "R", "I", "N", "G">>,
      <<"N", "U", "T">>,
      <<"R", "O", "D">> >>
Catalogs == {EngineNames, DroneNames, SuspensionNames}

\* ids an analysis result names its parts by
AIIds ==
    {<<"p", "i", "s", "t", "o", "n">>,
     <<"P", "i", "s", "t", "o", "n", " ", "R", "i", "n", "g">>,
     <<"p", "i", "s", "t", "o", "n", "_", "p", "i", "n">>,
     <<"R", "o", "d">>,
     <<"r", "o", "d", "-", "c", "a", "p">>,
     <<"C", "o", "n", "n", "e", "c", "t", "i", "n", "g", " ", "R", "o", "d">>,
     <<"m", "a", "i", "n", " ", "f", "r", "a", "m", "e", " ", "m", "i", "r", "r", "o", "r">>,
     <<"M", "a", "i", "n", "_", "F", "r", "a", "m", "e">>,
     <<"g", "e", "a", "r">>,
     <<"P", "r", "o", "p", "e", "l", "l", "e", "r">>,
     <<"N", "U", "T">>,
     <<"n", "u", "t">>,
     <<"B", "a", "s", "e">>,
     <<"r", "o", "d", "_", "1">>,
     <<"b", "o", "l", "t">>,
     <<"-">>}

CalculateMateTransform(mate, faceA, faceB) ==
    /\ call = NoCall
    /\ call' = [fn |-> "calculateMateTransform", mate |-> mate, faceA |-> faceA,
                faceB |-> faceB, out |-> calculateMateTransform(mate, faceA, faceB)]
    /\ UNCHANGED <<vars, hookVars, groupVars, other, service>>

CalculatePositionsAtFactor(assembly, factor) ==
    /\ call = NoCall
    /\ call' = [fn |-> "calculatePositionsAtFactor", assembly |-> assembly,
                factor |-> factor, out |-> calculatePositionsAtFactor(assembly, factor)]
    /\ UNCHANGED <<vars, hookVars, groupVars, other, service>>

GenerateAssemblySequence(assembly, stepDuration) ==
    /\ call = NoCall
    /\ call' = [fn |-> "generateAssemblySequence", assembly |-> assembly,
                stepDuration |-> stepDuration,
                out |-> generateAssemblySequence(assembly, stepDuration)]
    /\ UNCHANGED <<vars, hookVars, groupVars, other, service>>

GenerateExplodeSequence(assembly, stepDuration) ==
    /\ call = NoCall
    /\ \E assemblySeq \in {generateAssemblySequence(assembly, stepDuration)} :
          call' = [fn |-> "generateExplodeSequence", assembly |-> assembly,
                   stepDuration |-> stepDuration,
                   out |-> generateExplodeSequence(assemblySeq, stepDuration)]
    /\ UNCHANGED <<vars, hookVars, groupVars, other, service>>

FindOriginalPart(names, aiId) ==
    /\ call = NoCall
    /\ call' = [fn |-> "findOriginalPart", names |-> names, aiId |-> aiId,
                out |-> findOriginalPart(names, aiId)]
    /\ UNCHANGED <<vars, hookVars, groupVars, other, service>>

InitCalculators == Init /\ parts = ChainRegistry

NextCalculators ==
    \/ \E t \in MateTypes, a, b \in Faces, flip \in BOOLEAN, offset \in MateOffsets :
          CalculateMateTransform(Mate(t, "BASE", "top", "ROD", "bottom", flip, offset), a, b)
    \/ \E base \in PartNames, mates \in MateLists, f \in Factors :
          CalculatePositionsAtFactor(Assembly(base, mates), f)
    \/ \E names \in Catalogs, id \in AIIds : FindOriginalPart(names, id)

SpecCalculators == InitCalculators /\ [][NextCalculators]_allVars

\* the assembly player alone, each of its methods called once
NextPlayer ==
    \/ \E base \in PartNames, mates \in MateLists, f \in Factors :
          CalculatePositionsAtFactor(Assembly(base, mates), f)
    \/ \E base \in PartNames, mates \in MateLists, d \in StepDurations :
          GenerateAssemblySequence(Assembly(base, mates), d)
    \/ \E base \in PartNames, mates \in MateLists, d \in StepDurations :
          GenerateExplodeSequence(Assembly(base, mates), d)

SpecPlayer == InitCalculators /\ [][NextPlayer]_allVars

(***************************************************************************)
(* The viewer (src/components/Viewer/ModelGroup_ai.tsx with the hooks       *)
(* useModelAnimations_ai and useModelAnimations).  The component owns one   *)
(* resolver, built from machinery.parts.  Positions that leave the          *)
(* resolver are shown in tenths of a unit, so that the literals 21.0 and    *)
(* 19.8 and the products with an explode factor of 0, 0.5 or 1 (held as 0,  *)
(* 5 and 10) are exact.  Directions are axis vectors or sums of them with   *)
(* components in -1..1, whose normalisation the model takes per component   *)
(* for the axis vectors it draws.                                           *)
(***************************************************************************)
Tenths(v) == MultiplyScalar(v, 10)

Up == <<0, 1, 0>>

Sign(x) == IF x > 0 THEN 1 ELSE IF x < 0 THEN -1 ELSE 0

\* Vector3.normalize for a vector along one axis (the zero vector stays zero)
normalizeVector(v) == <<Sign(v[1]), Sign(v[2]), Sign(v[3])>>

\* the characters of each part's name
Spelling ==
    [n \in PartNames |->
        CASE n = "BASE" -> <<"B", "A", "S", "E">>
          [] n = "ROD"  -> <<"R", "O", "D">>
          [] n = "NUT"  -> <<"N", "U", "T">>]

\* machinery.parts.map(p => p.name), spelled
CatalogNames == [i \in 1..Len(PartOrder) |-> Spelling[PartOrder[i]]]

\* the literal position of each part in the catalog, in tenths
CatalogPosition ==
    [n \in PartNames |->
        CASE n = "BASE" -> <<0, 0, 0>>
          [] n = "ROD"  -> <<0, 200, 0>>
          [] n = "NUT"  -> <<0, 198, 0>>]

\* the literal explodeDirection of each part in the catalog
CatalogExplodeDirection ==
    [n \in PartNames |->
        CASE n = "BASE" -> <<0, 0, 0>>
          [] n = "ROD"  -> <<0, 1, 0>>
          [] n = "NUT"  -> <<0, 1, 0>>]

\* the name '서스펜션', romanised
SuspensionName == "seoseupensyeon"

Suspension == [id |-> "Suspension", name |-> SuspensionName]
\* a machinery that is not the suspension, with parts of the same names
MachineVice == [id |-> "Machine Vice", name |-> "gonggu baiseu"]

Machineries == {Suspension, MachineVice}

\* machinery.id === 'Suspension' || machinery.name === '서스펜션'
isSuspension(m) == m.id = "Suspension" \/ m.name = SuspensionName

\* one element of AIAssemblyResult.parts
AIPart(id, position, explodeDirection, constraint) ==
    [id |-> id, position |-> position, explodeDirection |-> explodeDirection,
     constraint |-> constraint]

\* an absent assemblyOrder is <<>>, a present one <<order>>
NoOrder == <<>>

AIResult(aiParts, assemblyOrder) == [parts |-> aiParts, assemblyOrder |-> <<assemblyOrder>>]

\* the answer the prompt shows as its example, for the parts of the model
SampleParts ==
    << AIPart(<<"B", "A", "S", "E">>, <<0, 0, 0>>, <<0, -1, 0>>,
              Con("Fixed", NoName, <<0, 0, 0>>, NoNum, NoNum, NoNum)),
       AIPart(<<"R", "O", "D">>, <<0, 20, 0>>, <<0, 1, 0>>,
              Con("StackedOn", "BASE", <<0, 0, 0>>, NoNum, NoNum, NoNum)),
       AIPart(<<"N", "U", "T">>, <<0, 80, 0>>, <<0, 1, 0>>,
              Con("Threaded", "ROD", NoVec, <<8>>, NoNum, NoNum)) >>

SampleResult ==
    AIResult(SampleParts, <<<<"B", "A", "S", "E">>, <<"R", "O", "D">>, <<"N", "U", "T">>>>)

\* the same parts with an assembly order that starts from the rod, names it
\* and the base in its own words and leaves the nut out
ReorderedResult ==
    AIResult(SampleParts, <<<<"R", "o", "d", "-", "1">>,
                            <<"b", "a", "s", "e", "_", "p", "l", "a", "t", "e">>>>)

\* an answer that names the parts in its own words and omits the nut's
\* constraint: "base_plate" and "Rod-1" contain a catalog name, "Top Cap"
\* matches none
RenamedResult ==
    AIResult(
        << AIPart(<<"b", "a", "s", "e", "_", "p", "l", "a", "t", "e">>, <<0, 0, 0>>,
                  <<0, -1, 0>>, Con("Fixed", NoName, <<0, 0, 0>>, NoNum, NoNum, NoNum)),
           AIPart(<<"R", "o", "d", "-", "1">>, <<0, 20, 0>>, <<0, 1, 0>>,
                  Con("StackedOn", "BASE", <<0, 0, 0>>, NoNum, NoNum, NoNum)),
           AIPart(<<"T", "o", "p", " ", "C", "a", "p">>, <<0, 80, 0>>, <<0, 1, 0>>,
                  NoConstraint) >>,
        << <<"b", "a", "s", "e", "_", "p", "l", "a", "t", "e">>,
           <<"R", "o", "d", "-", "1">>,
           <<"T", "o", "p", " ", "C", "a", "p">> >>)

\* the same parts in an answer that has no assemblyOrder (validateResult does
\* not look at the field, and an answer read from the cache is not validated)
UnorderedResult == [parts |-> SampleParts, assemblyOrder |-> NoOrder]

AIResults == {SampleResult, ReorderedResult, RenamedResult, UnorderedResult}

\* an entry of pending: an effect to run, or an analysis request in flight
\* with the explode factor its closure captured.  Of the requests in flight
\* pending keeps the latest
Effect(name, factor) == [effect |-> name, factor |-> factor]
\* an effect ended in an exception: React unmounts the tree and nothing of
\* the component runs after it
EffectThrew == Effect("threw", 0)
ResolveEffectPending == Effect("resolve", 0)
PositionsEffectPending == Effect("positions", 0)
Request(factor) == Effect("analysis", factor)
Requests == {Request(f) : f \in Factors}

(***************************************************************************)
(* The resolve-and-explode effect of ModelGroup_ai                          *)
(***************************************************************************)
RECURSIVE applyConstraints(_, _, _, _)

\* aiResult.parts.forEach: every part that carries a constraint and matches
\* a catalog part has the constraint put on that part of the resolver
applyConstraints(aiParts, i, ps, cache) ==
    IF i > Len(aiParts) THEN [parts |-> ps, cache |-> cache]
    ELSE
        LET aiPart == aiParts[i]
            k == findOriginalPart(CatalogNames, aiPart.id)
        IN
        IF aiPart.constraint # NoConstraint /\ k # 0
        THEN applyConstraints(aiParts, i + 1,
                 [ps EXCEPT ![PartOrder[k]].constraint = aiPart.constraint],
                 [cache EXCEPT ![PartOrder[k]] = NoVec])
        ELSE applyConstraints(aiParts, i + 1, ps, cache)

\* getExplodeDir
getExplodeDir(m, result, n) ==
    IF isSuspension(m) THEN Up
    ELSE
        LET ids == [i \in 1..Len(result.parts) |-> result.parts[i].id]
            k == findOriginalPart(ids, Spelling[n])
        IN IF k # 0 THEN result.parts[k].explodeDirection ELSE Up

\* aiResult.assemblyOrder.findIndex(...): from 0, -1 when no entry matches
orderIndex(result, n) == findOriginalPart(result.assemblyOrder[1], Spelling[n]) - 1

\* sequenceMultiplier, after the overrides of the suspension (the last of
\* the three tests that holds wins)
sequenceMultiplier(m, result, n) ==
    LET idNorm == normalize(Spelling[n]) IN
    IF isSuspension(m) /\ includes(idNorm, <<"r", "o", "d">>) THEN 6
    ELSE IF isSuspension(m) /\ includes(idNorm, <<"n", "u", "t">>) THEN 4
    ELSE IF isSuspension(m) /\ includes(idNorm, <<"s", "p", "r", "i", "n", "g">>) THEN 2
    ELSE IF orderIndex(result, n) >= 0 THEN orderIndex(result, n) ELSE 1

\* initialOffset_or_pos, in tenths
initialPosition(m, n, pos) ==
    LET idNorm == normalize(Spelling[n]) IN
    IF isSuspension(m) /\ includes(idNorm, <<"r", "o", "d">>) THEN <<0, 210, 0>>
    ELSE IF isSuspension(m) /\ includes(idNorm, <<"s", "p", "r", "i", "n", "g">>) THEN <<0, 0, 0>>
    ELSE IF isSuspension(m) /\ includes(idNorm, <<"n", "u", "t">>) THEN <<0, 198, 0>>
    ELSE Tenths(pos)

\* distance = isSuspension ? 6 : 20
distance(m) == IF isSuspension(m) THEN 6 ELSE 20

\* resolved.forEach: the exploded map, in tenths
explode(m, result, resolved, factor) ==
    [n \in PartNames |->
        IF resolved[n] = NoVec THEN NoVec
        ELSE Add(initialPosition(m, n, resolved[n]),
                 MultiplyScalar(getExplodeDir(m, result, n),
                                factor * distance(m) * sequenceMultiplier(m, result, n)))]

(***************************************************************************)
(* The positions of the useModelAnimations_ai hook.  The map is a function  *)
(* from the keys set, each a spelled string, to positions in tenths.        *)
(***************************************************************************)
RECURSIVE setPositions(_, _, _, _)

\* result.parts.forEach of calculatePositionsFromAI
setPositions(aiParts, i, factor, posMap) ==
    IF i > Len(aiParts) THEN posMap
    ELSE
        LET part == aiParts[i]
            explodedPos == Add(Tenths(part.position),
                               MultiplyScalar(normalizeVector(part.explodeDirection),
                                              factor * 15))
            normId == normalize(part.id)
            matched == {k \in 1..Len(CatalogNames) : normalize(CatalogNames[k]) = normId}
            first == CHOOSE k \in matched : \A j \in matched : k <= j
            own == (part.id :> explodedPos) @@ posMap
        IN
        IF matched # {} /\ CatalogNames[first] # part.id
        THEN setPositions(aiParts, i + 1, factor, (CatalogNames[first] :> explodedPos) @@ own)
        ELSE setPositions(aiParts, i + 1, factor, own)

calculatePositionsFromAI(result, factor) == setPositions(result.parts, 1, factor, <<>>)

(***************************************************************************)
(* The fallback positions and the position each part is rendered at         *)
(***************************************************************************)
\* calculateExplodePosition of hooks/useModelAnimations.ts, in tenths; the
\* sixth argument the component passes is not a parameter of it
calculateExplodePosition(originalPos, center, factor, explodeDirection, isGround) ==
    IF isGround THEN Zero
    ELSE
        LET radial == normalizeVector(Sub(originalPos, center))
            direction == IF explodeDirection # NoVec THEN normalizeVector(explodeDirection)
                         ELSE IF radial = Zero THEN Up ELSE radial
        IN MultiplyScalar(direction, factor * 150)

\* fallbackPositions
fallbackPositions(m, ps, factor) ==
    [n \in PartNames |->
        LET direction == IF isSuspension(m) THEN Up ELSE CatalogExplodeDirection[n]
            pos == calculateExplodePosition(CatalogPosition[n], Zero, factor, direction,
                                            ps[n].isGround)
            idNorm == normalize(Spelling[n])
        IN
        IF isSuspension(m) /\ includes(idNorm, <<"r", "o", "d">>)
        THEN <<0, 210 + 6 * factor * 6, 0>>
        ELSE IF isSuspension(m) /\ includes(idNorm, <<"s", "p", "r", "i", "n", "g">>)
        THEN <<0, 6 * factor * 2, 0>>
        ELSE IF isSuspension(m) /\ includes(idNorm, <<"n", "u", "t">>)
        THEN <<0, 198 + 6 * factor * 4, 0>>
        ELSE pos]

\* Map.size of the component's resolvedPositions state
Size(map) == Cardinality({n \in PartNames : map[n] # NoVec})

\* finalPositions.get(part.name): the entry of the selected map, NoVec when
\* the map has none
finalPosition(n) ==
    IF useFallback \/ error # "" THEN fallbackPositions(machinery, parts, explodeFactor)[n]
    ELSE IF Size(resolvedPositionsState) > 0 THEN resolvedPositionsState[n]
    ELSE IF DOMAIN positions # {}
         THEN IF Spelling[n] \in DOMAIN positions THEN positions[Spelling[n]] ELSE NoVec
    ELSE fallbackPositions(machinery, parts, explodeFactor)[n]

\* finalPositions.get(part.name) || new THREE.Vector3(0, 0, 0)
renderedPosition(n) == IF finalPosition(n) = NoVec THEN Zero ELSE finalPosition(n)

(***************************************************************************)
(* The viewer's steps.  The calls the component makes on its resolver are   *)
(* part of the step that makes them and are not counted in calls.           *)
(***************************************************************************)
\* the effects that depend on aiResult, to run after it changed
AfterResult == {ResolveEffectPending, PositionsEffectPending}

\* React runs the effects of a commit before it takes the next update: a
\* callback or a prop change finds no effect waiting
Flushed == pending \cap (AfterResult \cup {EffectThrew}) = {}

\* newScale of handleMeshLoaded for a base whose largest side is maxDim (the
\* quotients are whole for the meshes of the model)
newScale(maxDim) ==
    IF maxDim < 5 THEN 20 \div maxDim
    ELSE IF maxDim > 1000 THEN 100 \div maxDim
    ELSE 1

Max(a, b) == IF a >= b THEN a ELSE b

\* the object a part's model file loads as, at unit scale: the vice's base is
\* a small model (its largest side is under 5 units)
ModelMesh(m, n) ==
    IF m = MachineVice /\ n = "BASE" THEN [min |-> <<-2, 0, -2>>, max |-> <<2, 1, 2>>]
    ELSE PartMesh[n]

\* handleMeshLoaded: each part's mesh loads once
HandleMeshLoaded(partName) ==
    LET size == GetSize(ModelMesh(machinery, partName))
        maxDim == Max(size[1], Max(size[2], size[3]))
        isBase == toLowerCase(Spelling[partName]) = <<"b", "a", "s", "e">>
                  \/ parts[partName].isGround
        registered == [meshCache EXCEPT ![partName] = ModelMesh(machinery, partName)]
    IN
    /\ machinery # NoMachinery
    /\ Flushed
    /\ meshCache[partName] = NoBox
    /\ meshCache' = registered
    /\ IF isBase
       THEN /\ globalScale' = newScale(maxDim)
            /\ boundingBoxCache' =
                  [n \in Names |->
                      IF registered[n] # NoBox THEN ScaledBox(registered[n], newScale(maxDim))
                      ELSE boundingBoxCache[n]]
       ELSE /\ globalScale' = globalScale
            /\ boundingBoxCache' =
                  [boundingBoxCache EXCEPT ![partName] = ModelMesh(machinery, partName)]
    /\ resolvedPositions' = EmptyPositions
    /\ meshCount' = meshCount + 1
    /\ pending' = pending \cup {ResolveEffectPending}
    /\ UNCHANGED <<parts, ret, calls, hookVars, machinery, explodeFactor,
                   resolvedPositionsState, call, other,
                   service>>

\* the effect of ModelGroup_ai on [aiResult, meshCount, explodeFactor, ...];
\* it is declared after the hook's effects and runs after them
ResolveEffect ==
    /\ ResolveEffectPending \in pending
    /\ PositionsEffectPending \notin pending
    /\ IF aiResult # NoResult /\ meshCount > 0
       THEN LET applied == applyConstraints(aiResult.parts, 1, parts, resolvedPositions)
                resolved == resolveAll(PartOrder, applied.parts, boundingBoxCache)
                \* resolveAll ends in a RangeError, or aiResult.assemblyOrder
                \* is undefined where findIndex is called on it
                throws == ~resolved.ok \/ aiResult.assemblyOrder = NoOrder
            IN
            /\ parts' = applied.parts
            /\ resolvedPositions' = resolved.cache
            /\ resolvedPositionsState' =
                  IF throws THEN resolvedPositionsState
                  ELSE explode(machinery, aiResult, resolved.cache, explodeFactor)
            /\ pending' = (pending \ {ResolveEffectPending})
                            \cup (IF throws THEN {EffectThrew} ELSE {})
       ELSE /\ pending' = pending \ {ResolveEffectPending}
            /\ UNCHANGED <<parts, resolvedPositions, resolvedPositionsState>>
    /\ UNCHANGED <<meshCache, boundingBoxCache, ret, calls, hookVars, machinery,
                   explodeFactor, meshCount, globalScale, call, other,
                   service>>

\* the effect of the hook on [explodeFactor, aiResult, ...]
PositionsEffect ==
    /\ PositionsEffectPending \in pending
    /\ pending' = pending \ {PositionsEffectPending}
    /\ positions' = IF aiResult # NoResult
                    THEN calculatePositionsFromAI(aiResult, explodeFactor)
                    ELSE positions
    /\ UNCHANGED <<vars, aiResult, error, useFallback, machinery, explodeFactor,
                   meshCount, resolvedPositionsState, globalScale, call, other,
                   service>>

\* the request of the main effect resolves: setAiResult and setPositions
\* with the factor the effect's closure holds.  The service answers from its
\* cache (useCache: true) while a result is held; retryAI clears both
AnalysisSucceeds(request, result) ==
    /\ Flushed
    /\ request \in pending
    /\ request.effect = "analysis"
    /\ aiResult # NoResult => result = aiResult
    /\ aiResult' = result
    /\ positions' = calculatePositionsFromAI(result, request.factor)
    /\ pending' = (pending \ {request})
                    \cup (IF result # aiResult THEN AfterResult ELSE {})
    /\ UNCHANGED <<vars, error, useFallback, machinery, explodeFactor, meshCount,
                   resolvedPositionsState, globalScale, call, other,
                   service>>

\* the request fails: setError, setUseFallback(true)
AnalysisFails(request) ==
    /\ Flushed
    /\ request \in pending
    /\ request.effect = "analysis"
    /\ error' = "Unknown error"
    /\ useFallback' = TRUE
    /\ pending' = pending \ {request}
    /\ UNCHANGED <<vars, aiResult, positions, machinery, explodeFactor, meshCount,
                   resolvedPositionsState, globalScale, call, other,
                   service>>

\* forceFallback
ForceFallback ==
    /\ machinery # NoMachinery
    /\ Flushed
    /\ ~useFallback
    /\ useFallback' = TRUE
    /\ error' = "Using fallback method"
    /\ UNCHANGED <<vars, aiResult, positions, groupVars, call, other,
                   service>>

\* retryAI; the main effect runs again, and starts a request, when
\* useFallback changed
RetryAI ==
    /\ machinery # NoMachinery
    /\ Flushed
    /\ useFallback' = FALSE
    /\ error' = ""
    /\ aiResult' = NoResult
    /\ pending' = (IF useFallback THEN (pending \ Requests) \cup {Request(explodeFactor)}
                    ELSE pending)
                    \cup (IF aiResult # NoResult THEN AfterResult ELSE {})
    /\ UNCHANGED <<vars, positions, machinery, explodeFactor, meshCount,
                   resolvedPositionsState, globalScale, call, other,
                   service>>

\* the explodeFactor prop changes: both effects are due, and the main effect
\* of the hook starts a request (setError(null)) unless useFallback is set
SetExplodeFactor(factor) ==
    /\ machinery # NoMachinery
    /\ Flushed
    /\ factor # explodeFactor
    /\ explodeFactor' = factor
    /\ error' = IF useFallback THEN error ELSE ""
    /\ pending' = (IF useFallback THEN pending
                    ELSE (pending \ Requests) \cup {Request(factor)})
                    \cup AfterResult
    /\ UNCHANGED <<vars, aiResult, useFallback, positions, machinery, meshCount,
                   resolvedPositionsState, globalScale, call, other,
                   service>>

\* the component is mounted on a machinery with a thumbnail: the resolver is
\* new and the first request is in flight
InitViewer ==
    /\ parts \in Registries
    /\ resolvedPositions = EmptyPositions
    /\ meshCache = NoBoxes
    /\ boundingBoxCache = NoBoxes
    /\ ret = NoRet
    /\ calls = 0
    /\ aiResult = NoResult
    /\ error = ""
    /\ useFallback = FALSE
    /\ positions = <<>>
    /\ machinery \in Machineries
    /\ explodeFactor = 0
    /\ meshCount = 0
    /\ resolvedPositionsState = EmptyPositions
    /\ globalScale = 1
    /\ pending = {Request(explodeFactor)}
    /\ call = NoCall
    /\ other = NoOther
    /\ service = NoService

NextViewer ==
    \/ \E n \in PartNames : HandleMeshLoaded(n)
    \/ ResolveEffect
    \/ PositionsEffect
    \/ \E f \in Factors, result \in AIResults : AnalysisSucceeds(Request(f), result)
    \/ \E f \in Factors : AnalysisFails(Request(f))
    \/ ForceFallback
    \/ RetryAI
    \/ \E f \in Factors : SetExplodeFactor(f)

SpecViewer == InitViewer /\ [][NextViewer]_allVars

(***************************************************************************)
(* The AI assembly service (aiAssemblyService.ts): its memory cache and     *)
(* localStorage.  A key is the sequence of the pieces it is concatenated    *)
(* from; an entry is the stored result with expired set once it is older    *)
(* than cacheExpiry.  service.answer is the result analyzeAssembly          *)
(* returned (NoResult when it threw), cached whether it came from a cache,  *)
(* and afterClear whether the call before it was clearCache of the same     *)
(* machinery.                                                               *)
(***************************************************************************)
cacheKeyVersion == <<"v11_assembled_">>

\* `ai_assembly_${machineryId}`
storageKey(machineryId) == <<"ai_assembly_">> \o machineryId

Entry(result) == [result |-> result, expired |-> FALSE]

Remove(map, key) == [k \in DOMAIN map \ {key} |-> map[k]]

Put(map, key, entry) == [k \in DOMAIN map \cup {key} |-> IF k = key THEN entry ELSE map[k]]

\* getFromCache: [hit, result, cache, storage]
getFromCache(sv, machineryId) ==
    LET key == storageKey(machineryId) IN
    IF machineryId \in DOMAIN sv.cache /\ ~sv.cache[machineryId].expired
    THEN [hit |-> TRUE, result |-> sv.cache[machineryId].result,
          cache |-> sv.cache, storage |-> sv.storage]
    ELSE IF key \in DOMAIN sv.storage
    THEN IF ~sv.storage[key].expired
         THEN [hit |-> TRUE, result |-> sv.storage[key].result,
               cache |-> Put(sv.cache, machineryId, sv.storage[key]),
               storage |-> sv.storage]
         ELSE [hit |-> FALSE, result |-> NoResult, cache |-> sv.cache,
               storage |-> Remove(sv.storage, key)]
    ELSE [hit |-> FALSE, result |-> NoResult, cache |-> sv.cache, storage |-> sv.storage]

\* saveToCache
saveToCache(sv, machineryId, result) ==
    [sv EXCEPT !.cache = Put(sv.cache, machineryId, Entry(result)),
               !.storage = Put(sv.storage, storageKey(machineryId), Entry(result))]

\* clearCache(machineryId)
clearCache(sv, machineryId) ==
    [sv EXCEPT !.cache = Remove(sv.cache, machineryId),
               !.storage = Remove(sv.storage, storageKey(machineryId))]

\* the machinery ids of the catalog the service is called with
MachineryIds == {<<"Suspension">>, <<"Drone">>}

\* what Gemini answers, after validateResult
GeminiAnswers == {SampleResult, RenamedResult}

\* analyzeAssembly(imageUrl, partIds, machineryId, {useCache: true}) with
\* Gemini answering
AnalyzeAssembly(machineryId, answer) ==
    LET got == getFromCache(service, cacheKeyVersion \o machineryId)
        looked == [service EXCEPT !.cache = got.cache, !.storage = got.storage]
        saved == IF got.hit THEN looked
                 ELSE saveToCache(looked, cacheKeyVersion \o machineryId, answer)
    IN
    /\ service' = [saved EXCEPT !.op = "analyzeAssembly", !.id = machineryId,
                                !.answer = IF got.hit THEN got.result ELSE answer,
                                !.cached = got.hit,
                                !.afterClear = (service.op = "clearCache"
                                                  /\ service.id = machineryId)]
    /\ UNCHANGED <<vars, hookVars, groupVars, call, other>>

\* analyzeAssembly with Gemini failing on every attempt: it throws
AnalyzeAssemblyFails(machineryId) ==
    LET got == getFromCache(service, cacheKeyVersion \o machineryId) IN
    /\ service' = [service EXCEPT !.cache = got.cache, !.storage = got.storage,
                                  !.op = "analyzeAssembly", !.id = machineryId,
                                  !.answer = got.result, !.cached = got.hit,
                                  !.afterClear = (service.op = "clearCache"
                                                    /\ service.id = machineryId)]
    /\ UNCHANGED <<vars, hookVars, groupVars, call, other>>

\* retryAI of the hook: aiAssemblyService.clearCache(machineryId)
ClearCacheOf(machineryId) ==
    /\ service' = [clearCache(service, machineryId) EXCEPT
                      !.op = "clearCache", !.id = machineryId]
    /\ UNCHANGED <<vars, hookVars, groupVars, call, other>>

\* clearCache(): the memory cache is cleared and every localStorage key that
\* starts with ai_assembly_ is removed
ClearAllCache ==
    /\ service' = [service EXCEPT
                      !.cache = <<>>,
                      !.storage = [k \in {x \in DOMAIN service.storage :
                                             x[1] # "ai_assembly_"} |-> service.storage[k]],
                      !.op = "clearCache", !.id = <<>>]
    /\ UNCHANGED <<vars, hookVars, groupVars, call, other>>

\* more than cacheExpiry (24 hours) passes
Expire ==
    /\ service.op # "expire"
    /\ service' = [service EXCEPT
                      !.cache = [k \in DOMAIN service.cache |->
                                    [service.cache[k] EXCEPT !.expired = TRUE]],
                      !.storage = [k \in DOMAIN service.storage |->
                                      [service.storage[k] EXCEPT !.expired = TRUE]],
                      !.op = "expire", !.id = <<>>]
    /\ UNCHANGED <<vars, hookVars, groupVars, call, other>>

\* the page is loaded again: a new service whose constructor runs
\* loadCacheFromStorage (key.slice(prefix.length))
Reload ==
    /\ service.op # "new"
    /\ service' = [service EXCEPT
                      !.cache = [k \in {Tail(x) : x \in {y \in DOMAIN service.storage :
                                                            y[1] = "ai_assembly_"}} |->
                                    service.storage[<<"ai_assembly_">> \o k]],
                      !.op = "new", !.id = <<>>,
                      !.answer = NoResult, !.cached = FALSE, !.afterClear = FALSE]
    /\ UNCHANGED <<vars, hookVars, groupVars, call, other>>

InitService == Init

NextService ==
    \/ \E id \in MachineryIds, answer \in GeminiAnswers : AnalyzeAssembly(id, answer)
    \/ \E id \in MachineryIds : AnalyzeAssemblyFails(id)
    \/ \E id \in MachineryIds : ClearCacheOf(id)
    \/ ClearAllCache
    \/ Expire
    \/ Reload

SpecService == InitService /\ [][NextService]_allVars

(***************************************************************************)
(* What a caller does to the map resolveAll returned.  The map is a new     *)
(* Map built from the cache's entries (new Map(this.resolvedPositions)):    *)
(* its keys are its own, its values are the cache's Vector3 objects.        *)
(***************************************************************************)
\* the caller changes a vector of the returned map
MutateMapVector(partName) ==
    /\ ret.op = "resolveAll"
    /\ ret.ok
    /\ ret.map[partName] # NoVec
    /\ ret' = [ret EXCEPT !.op = "mutateMap", !.part = partName,
                          !.map[partName] = Add(ret.map[partName], Nudge),
                          !.orig = ret.map[partName]]
    /\ resolvedPositions' =
          IF ret.alias
          THEN [resolvedPositions EXCEPT ![partName] = Add(ret.map[partName], Nudge)]
          ELSE resolvedPositions
    /\ UNCHANGED <<parts, meshCache, boundingBoxCache, calls>>
    /\ UNCHANGED outside

\* the caller deletes a key of the returned map
DeleteMapKey(partName) ==
    /\ ret.op = "resolveAll"
    /\ ret.ok
    /\ ret.map[partName] # NoVec
    /\ ret' = [ret EXCEPT !.op = "deleteMapKey", !.part = partName,
                          !.map[partName] = NoVec,
                          !.orig = ret.map[partName]]
    /\ UNCHANGED <<parts, resolvedPositions, meshCache, boundingBoxCache, calls>>
    /\ UNCHANGED outside

NextSnapshot ==
    \/ \E n \in Names, c \in AIConstraints : UpdatePartConstraint(n, c)
    \/ \E n \in Names, s \in LogicalScales : RegisterMesh(n, s)
    \/ \E n \in PartNames : ResolvePosition(n)
    \/ ResolveAll
    \/ \E n \in PartNames : MutateMapVector(n)
    \/ \E n \in PartNames : DeleteMapKey(n)

SpecSnapshot == Init /\ [][NextSnapshot]_allVars

(***************************************************************************)
(* Two resolvers constructed from one parts array.  The constructor keeps   *)
(* the caller's part objects themselves (new Map(parts.map(p => [p.name,    *)
(* p]))), so parts is the one store of those objects: the caller's array    *)
(* and the registry of either resolver.  The caches are each resolver's     *)
(* own; no mesh is registered on the second resolver.                       *)
(***************************************************************************)
\* the second constructor call, on the array the first was given
constructor(given) == [given |-> given, resolvedPositions |-> EmptyPositions]

UpdatePartConstraintOther(partName, constraint) ==
    /\ calls < MaxCalls
    /\ calls' = calls + 1
    /\ IF partName \in PartNames
       THEN /\ parts' = [parts EXCEPT ![partName].constraint = constraint]
            /\ other' = [other EXCEPT !.resolvedPositions[partName] = NoVec]
       ELSE UNCHANGED <<parts, other>>
    /\ ret' = [NoRet EXCEPT !.op = "other.updatePartConstraint", !.part = partName,
                            !.ok = (partName \in PartNames)]
    /\ UNCHANGED <<resolvedPositions, meshCache, boundingBoxCache>>
    /\ UNCHANGED <<hookVars, groupVars, call, service>>

ResolvePositionOther(partName) ==
    /\ calls < MaxCalls
    /\ calls' = calls + 1
    /\ LET r == resolvePosition(partName, parts, other.resolvedPositions, NoBoxes, 1) IN
       /\ other' = [other EXCEPT !.resolvedPositions = r.cache]
       /\ ret' = Clone(Live([NoRet EXCEPT !.op = "other.resolvePosition",
                                          !.part = partName, !.ok = r.ok, !.pos = r.pos]))
    /\ UNCHANGED <<parts, resolvedPositions, meshCache, boundingBoxCache>>
    /\ UNCHANGED <<hookVars, groupVars, call, service>>

ResolveAllOther ==
    /\ calls < MaxCalls
    /\ calls' = calls + 1
    /\ LET r == resolveAll(PartOrder, parts, NoBoxes) IN
       /\ other' = [other EXCEPT !.resolvedPositions = r.cache]
       /\ ret' = Live([NoRet EXCEPT !.op = "other.resolveAll", !.ok = r.ok,
                                    !.map = IF r.ok THEN r.cache ELSE EmptyPositions])
    /\ UNCHANGED <<parts, resolvedPositions, meshCache, boundingBoxCache>>
    /\ UNCHANGED <<hookVars, groupVars, call, service>>

InitShared ==
    /\ parts \in Registries
    /\ resolvedPositions = EmptyPositions
    /\ meshCache = NoBoxes
    /\ boundingBoxCache = NoBoxes
    /\ ret = NoRet
    /\ calls = 0
    /\ Unmounted
    /\ call = NoCall
    /\ other = constructor(parts)
    /\ service = NoService

NextShared ==
    \/ \E n \in Names, c \in AIConstraints : UpdatePartConstraint(n, c)
    \/ \E n \in PartNames : ResolvePosition(n)
    \/ ResolveAll
    \/ \E n \in Names, c \in AIConstraints : UpdatePartConstraintOther(n, c)
    \/ \E n \in PartNames : ResolvePositionOther(n)
    \/ ResolveAllOther

SpecShared == InitShared /\ [][NextShared]_allVars

(***************************************************************************)
(* The constraint graph                                                     *)
(***************************************************************************)
KnownTypes == {"Fixed", "StackedOn", "Threaded", "RadialAroundCenter"}

\* the name a constraint refers to, by its type
RefOf(c) ==
    CASE c.type = "StackedOn" -> c.parentPart
      [] c.type = "Threaded" -> c.threadedOn
      [] c.type = "RadialAroundCenter" -> c.centerPart
      [] OTHER -> NoName

\* the registered part that resolving n recurses into, NoName if none
Edge(ps, n) ==
    IF n \in PartNames /\ RefOf(ps[n].constraint) \in PartNames
    THEN RefOf(ps[n].constraint) ELSE NoName

RECURSIVE Follow(_, _, _)
Follow(ps, n, k) == IF k = 0 \/ n = NoName THEN n ELSE Follow(ps, Edge(ps, n), k - 1)

NumParts == Cardinality(PartNames)

OnCycle(ps, n) == \E k \in 1..NumParts : Follow(ps, n, k) = n

\* n lies on a cycle none of whose parts has a cached position
OnUncachedCycle(ps, cache, n) ==
    \E k \in 1..NumParts :
        /\ Follow(ps, n, k) = n
        /\ \A i \in 0..(k - 1) : cache[Follow(ps, n, i)] = NoVec

Acyclic(ps) == \A n \in PartNames : ~OnCycle(ps, n)

\* a constraint that refers to no part or to an unregistered part, or whose
\* type is unknown
Malformed(c) ==
    \/ c.type \in {"StackedOn", "Threaded", "RadialAroundCenter"} /\ RefOf(c) \notin PartNames
    \/ c.type \notin KnownTypes \cup {"undefined"}

\* every chain of references ends at a Fixed, unconstrained or ground part
ChainsEndWell(ps) ==
    \A n \in PartNames :
        \/ Edge(ps, n) # NoName
        \/ ps[n].constraint.type \in {"Fixed", "undefined"}
        \/ ps[n].isGround

(***************************************************************************)
(* Properties                                                               *)
(***************************************************************************)
\* the position of part n derived from its current constraint, the cached
\* positions of the other parts and the cached boxes
FreshPosition(n) ==
    resolvePosition(n, parts, [resolvedPositions EXCEPT ![n] = NoVec],
                    boundingBoxCache, 1).pos

\* C1: a resolvePosition(p) that follows a successful updatePartConstraint(p, c)
\* and returns, returns the position derived from the new constraint c and
\* not the one cached for p before the update.
C1_UpdateThenResolveIsFresh ==
    (ret.op = "resolvePosition" /\ ret.after = "updatePartConstraint" /\ ret.ok)
        => ret.pos = FreshPosition(ret.part)

\* a position was cached for the part before the update, and the position
\* returned after the update differs from it
C1_Witness ==
    /\ ret.op = "resolvePosition" /\ ret.after = "updatePartConstraint" /\ ret.ok
    /\ ret.orig # NoVec
    /\ ret.pos # ret.orig

\* C2: right after a registerMesh or a setGlobalScale call the
\* resolved-position cache is empty, so no position resolved before the call
\* is reused.
C2_MeshOrScaleEmptiesCache ==
    ret.op \in {"registerMesh", "setGlobalScale"} => resolvedPositions = EmptyPositions

\* C3: with no other call in between, two consecutive resolvePosition calls
\* on a part return equal vectors, and two consecutive resolveAll calls
\* return equal maps (same keys, equal vectors).
C3_ResolveIsIdempotent ==
    [][ /\ (ret.op = "resolvePosition" /\ ret'.op = "resolvePosition"
                /\ ret'.part = ret.part)
            => (ret'.ok = ret.ok /\ ret'.pos = ret.pos)
        /\ (ret.op = "resolveAll" /\ ret'.op = "resolveAll")
            => (ret'.ok = ret.ok /\ ret'.map = ret.map) ]_vars

\* the second of two consecutive resolvePosition calls on a part that has a
\* constraint, returning a position off the origin
C3_Witness ==
    /\ ret.op = "resolvePosition" /\ ret.after = "resolvePosition" /\ ret.ok
    /\ parts[ret.part].constraint.type \in KnownTypes
    /\ ret.pos # Zero

\* C4: when the references form a DAG whose chains end at Fixed,
\* unconstrained or ground parts, resolveAll returns, and its map holds a
\* position for every registered part.
C4_ResolveAllCoversDag ==
    (ret.op = "resolveAll" /\ Acyclic(parts) /\ ChainsEndWell(parts))
        => (ret.ok /\ \A n \in PartNames : ret.map[n] # NoVec)

\* resolveAll has returned on a chain of three parts
C4_Witness ==
    /\ ret.op = "resolveAll" /\ Acyclic(parts) /\ ChainsEndWell(parts)
    /\ \E n \in PartNames :
          /\ Edge(parts, n) # NoName
          /\ Edge(parts, Edge(parts, n)) # NoName
    /\ ret.ok

\* C5: resolvePosition of a part on a cycle of references none of whose
\* parts has a cached position never returns: the recursion exceeds every
\* stack depth, and it leaves the cache as it was.
C5_CycleNeverReturns ==
    [][ (ret'.op = "resolvePosition" /\ calls' = calls + 1
            /\ OnUncachedCycle(parts, resolvedPositions, ret'.part))
        => (~ret'.ok /\ resolvedPositions' = resolvedPositions) ]_vars

\* resolvePosition ran out of stack on a cycle through another part
C5_Witness ==
    /\ ret.op = "resolvePosition" /\ ~ret.ok
    /\ OnCycle(parts, ret.part)
    /\ Edge(parts, ret.part) # ret.part

\* C6: a caller's change to the vector resolvePosition returned leaves the
\* cached position as it was, and the next resolvePosition of the part
\* returns the original position.
C6_ReturnedVectorIsACopy ==
    /\ ret.op = "mutateVector" => resolvedPositions[ret.part] = ret.orig
    /\ (ret.op = "resolvePosition" /\ ret.after = "mutateVector")
          => (ret.ok /\ ret.pos = ret.orig)

\* resolvePosition was called again after the caller changed the vector
C6_Witness ==
    /\ ret.op = "resolvePosition" /\ ret.after = "mutateVector"
    /\ ret.pos = ret.orig
    /\ ret.pos # Zero

\* C7: a caller's change to a box that getBoundingBox or getAllBoundingBoxes
\* returned leaves the bounding-box cache as it was.
C7_ReturnedBoxIsACopy ==
    [][ ret'.op = "mutateBox" => boundingBoxCache' = boundingBoxCache ]_vars

\* the registry with every malformed constraint replaced by Fixed at v
Standing(ps, v) ==
    [n \in PartNames |->
        IF Malformed(ps[n].constraint)
        THEN [ps[n] EXCEPT !.constraint = Con("Fixed", NoName, v, NoNum, NoNum, NoNum)]
        ELSE ps[n]]

\* resolving n recurses into a part whose constraint is malformed
DependsOnMalformed(ps, n) ==
    \E k \in 1..NumParts :
        /\ Follow(ps, n, k) # NoName
        /\ Malformed(ps[Follow(ps, n, k)].constraint)

\* C8: resolvePosition of a part whose constraint is malformed returns and
\* caches the zero vector without throwing; resolveAll throws in no more
\* cases than without the malformation, gives every part that does not
\* depend on a malformed part the position it has wherever that part stands,
\* and gives every part the position it has when the malformed part stands
\* at the origin.
C8_MalformedIsNonFatal ==
    /\ (ret.op = "resolvePosition" /\ Malformed(parts[ret.part].constraint))
          => (ret.ok /\ ret.pos = Zero /\ resolvedPositions[ret.part] = Zero)
    /\ (ret.op = "resolveAll" /\ \E n \in PartNames : Malformed(parts[n].constraint))
          => LET atOrigin == resolveAll(PartOrder, Standing(parts, Zero), boundingBoxCache)
                 elsewhere == resolveAll(PartOrder, Standing(parts, <<7, 7, 7>>),
                                         boundingBoxCache)
             IN
             /\ ret.ok = atOrigin.ok
             /\ ret.ok => ret.map = atOrigin.cache
             /\ ret.ok => \A n \in PartNames :
                   (~Malformed(parts[n].constraint) /\ ~DependsOnMalformed(parts, n))
                       => ret.map[n] = elsewhere.cache[n]

\* resolveAll returned with a malformed part and a part that depends on it
\* placed off the origin
C8_Witness ==
    /\ ret.op = "resolveAll" /\ ret.ok
    /\ \E n \in PartNames :
          /\ Edge(parts, n) # NoName
          /\ Malformed(parts[Edge(parts, n)].constraint)
          /\ ret.map[Edge(parts, n)] = Zero
          /\ ret.map[n] # Zero

\* C9: updatePartConstraint leaves the mesh cache and the bounding-box cache
\* alone; for a registered part it removes that part's cached position and
\* no other, and changes no other part; for an unknown name it changes
\* nothing.
C9_UpdateFrame ==
    [][ (ret'.op = "updatePartConstraint" /\ calls' = calls + 1)
        => /\ meshCache' = meshCache
           /\ boundingBoxCache' = boundingBoxCache
           /\ IF ret'.part \in PartNames
              THEN /\ resolvedPositions' = [resolvedPositions EXCEPT ![ret'.part] = NoVec]
                   /\ \A n \in PartNames \ {ret'.part} : parts'[n] = parts[n]
              ELSE /\ parts' = parts
                   /\ resolvedPositions' = resolvedPositions ]_vars

\* an update dropped one cached position and kept another, with a box cached
C9_Witness ==
    /\ ret.op = "updatePartConstraint" /\ ret.ok
    /\ ret.orig # NoVec
    /\ resolvedPositions[ret.part] = NoVec
    /\ \E n \in PartNames : resolvedPositions[n] # NoVec
    /\ \E n \in Names : boundingBoxCache[n] # NoBox

\* part n is stacked on a registered parent, both boxes are cached and the
\* manual offset Y is 0
FlushStacked(n) ==
    LET c == parts[n].constraint IN
    /\ c.type = "StackedOn"
    /\ c.parentPart \in PartNames
    /\ boundingBoxCache[c.parentPart] # NoBox
    /\ boundingBoxCache[n] # NoBox
    /\ OrZero(c.offset)[2] = 0

\* C10: in the map resolveAll returns, a flush-stacked child stands at its
\* parent's position plus (offsetX, parentBox.max.y - childBox.min.y, offsetZ).
C10_FlushStacking ==
    (ret.op = "resolveAll" /\ ret.ok)
        => \A n \in PartNames :
              FlushStacked(n) =>
                 LET c == parts[n].constraint
                     off == OrZero(c.offset)
                 IN ret.map[n] =
                        Add(ret.map[c.parentPart],
                            <<off[1],
                              boundingBoxCache[c.parentPart].max[2] - boundingBoxCache[n].min[2],
                              off[3]>>)

\* parent top 10 and child bottom -2 place the child at parent.Y + 12
C10_Witness ==
    /\ ret.op = "resolveAll" /\ ret.ok
    /\ \E n \in PartNames :
          /\ FlushStacked(n)
          /\ boundingBoxCache[parts[n].constraint.parentPart].max[2] = 10
          /\ boundingBoxCache[n].min[2] = -2
          /\ ret.map[n][2] = ret.map[parts[n].constraint.parentPart][2] + 12

\* part n is stacked on a registered parent
Stacked(n) ==
    /\ parts[n].constraint.type = "StackedOn"
    /\ parts[n].constraint.parentPart \in PartNames

\* C11: in the map resolveAll returns, a child stacked with a nonzero manual
\* offset Y stands at its parent's Y plus that manual Y, whatever boxes are
\* cached.
C11_ManualOverride ==
    (ret.op = "resolveAll" /\ ret.ok)
        => \A n \in PartNames :
              (Stacked(n) /\ OrZero(parts[n].constraint.offset)[2] # 0)
                  => ret.map[n][2] = ret.map[parts[n].constraint.parentPart][2]
                                        + parts[n].constraint.offset[2]

\* a manual Y was used although the parent's box is cached and the flush
\* value is another number
C11_Witness ==
    /\ ret.op = "resolveAll" /\ ret.ok
    /\ \E n \in PartNames :
          /\ Stacked(n)
          /\ OrZero(parts[n].constraint.offset)[2] # 0
          /\ boundingBoxCache[parts[n].constraint.parentPart] # NoBox
          /\ boundingBoxCache[parts[n].constraint.parentPart].max[2]
                # parts[n].constraint.offset[2]
          /\ ret.map[n][2] = ret.map[parts[n].constraint.parentPart][2]
                                + parts[n].constraint.offset[2]

\* C12: in the map resolveAll returns, a child stacked without manual offset
\* whose box or whose parent's box is missing stands at its parent's position
\* plus the parent's bounding-box height on Y.
C12_DegradesToParentHeight ==
    (ret.op = "resolveAll" /\ ret.ok)
        => \A n \in PartNames :
              (/\ Stacked(n)
               /\ OrZero(parts[n].constraint.offset) = Zero
               /\ \/ boundingBoxCache[n] = NoBox
                  \/ boundingBoxCache[parts[n].constraint.parentPart] = NoBox)
                  => ret.map[n] =
                        Add(ret.map[parts[n].constraint.parentPart],
                            <<0, getPartHeight(boundingBoxCache,
                                               parts[n].constraint.parentPart), 0>>)

\* the orders in which the parts can be visited
Orders ==
    {o \in [1..NumParts -> PartNames] : \A i, j \in 1..NumParts : i # j => o[i] # o[j]}

\* the chain of the example: BASE unconstrained with box top 5, ROD stacked
\* on it with box bottom 0 and height 20, NUT threaded on ROD at depth 0.8
ChainExample ==
    /\ parts = ChainRegistry
    /\ boundingBoxCache["BASE"] # NoBox
    /\ boundingBoxCache["BASE"].max[2] = 5
    /\ boundingBoxCache["ROD"] # NoBox
    /\ boundingBoxCache["ROD"].min[2] = 0
    /\ getPartHeight(boundingBoxCache, "ROD") = 20

\* C13: on the chain of the example resolveAll puts ROD at Y = 5 and NUT at
\* Y = 21, and so does the loop in every order of the three parts.
C13_ChainEndToEnd ==
    (ret.op = "resolveAll" /\ ChainExample)
        => /\ ret.ok
           /\ ret.map["BASE"] = Zero
           /\ ret.map["ROD"][2] = 5
           /\ ret.map["NUT"][2] = 21
           /\ \A o \in Orders :
                 LET r == resolveAll(o, parts, boundingBoxCache) IN
                 r.ok /\ r.cache["ROD"][2] = 5 /\ r.cache["NUT"][2] = 21

\* resolveAll has returned on the chain of the example
C13_Witness ==
    /\ ret.op = "resolveAll" /\ ChainExample
    /\ ret.map["NUT"] = <<0, 21, 0>>

\* C14: resolvePosition of a part with isGround = TRUE returns the origin.
C14_GroundAtOrigin ==
    (ret.op = "resolvePosition" /\ ret.ok /\ parts[ret.part].isGround)
        => ret.pos = Zero

\* the place of a part in the order the constructor's array gives
IndexOf(n) == CHOOSE i \in 1..Len(PartOrder) : PartOrder[i] = n

\* C15: on an acyclic registry the map resolveAll returns is the map the
\* loop builds in every order of the parts.
C15_OrderIndependent ==
    (ret.op = "resolveAll" /\ Acyclic(parts))
        => \A o \in Orders :
              LET r == resolveAll(o, parts, boundingBoxCache) IN
              r.ok = ret.ok /\ (ret.ok => r.cache = ret.map)

\* resolveAll visited a child before the parent it depends on
C15_Witness ==
    /\ ret.op = "resolveAll" /\ ret.ok /\ Acyclic(parts)
    /\ \E n \in PartNames :
          /\ Edge(parts, n) # NoName
          /\ IndexOf(n) < IndexOf(Edge(parts, n))
          /\ ret.map[Edge(parts, n)] # Zero
          /\ ret.map[n] # ret.map[Edge(parts, n)]

\* the four mate types calculateMateTransform has an implementation for
Implemented == {"coincident", "parallel", "perpendicular", "distance"}

\* C16: calculateMateTransform returns a result for every mate type and
\* every pair of faces, missing faces included; the result has success =
\* FALSE and a non-empty error for concentric and for every type without a
\* case, and success = TRUE only for the four implemented types.
C16_MateSuccessContract ==
    call.fn = "calculateMateTransform"
        => /\ call.out.success \in BOOLEAN
           /\ call.mate.type \notin Implemented => ~call.out.success
           /\ ~call.out.success => call.out.error # ""
           /\ call.out.success => (call.mate.type \in Implemented /\ call.out.error = "")

\* the declared type 'tangent' was dispatched and failed
C16_Witness ==
    /\ call.fn = "calculateMateTransform"
    /\ call.mate.type = "tangent"
    /\ call.faceA # NoFace /\ call.faceB # NoFace
    /\ ~call.out.success

\* C20: when the normalised AI id equals the normalised name of a catalog
\* part, find returns that part.
C20_ExactMatchPreferred ==
    call.fn = "findOriginalPart"
        => \A i \in 1..Len(call.names) :
              normalize(call.names[i]) = normalize(call.aiId) => call.out = i

\* the resolved map is the one rendered, and the effect that fills it has run
\* on the present result, meshes and factor
ResolvedShown ==
    /\ ~useFallback
    /\ error = ""
    /\ aiResult # NoResult
    /\ meshCount > 0
    /\ Flushed
    /\ Size(resolvedPositionsState) > 0

\* C17: at explode factor 0 the constraint-resolved path of ModelGroup_ai
\* renders every part at the position the resolver resolved for it
C17_FactorZeroIsAssembled ==
    (ResolvedShown /\ explodeFactor = 0)
        => \A n \in PartNames : renderedPosition(n) = Tenths(resolvedPositions[n])

\* C18: on the constraint-resolved path of ModelGroup_ai a ground part is
\* rendered, at every explode factor, where it is rendered at factor 0
C18_GroundNeverMoves ==
    ResolvedShown
        => \A n \in PartNames :
              parts[n].isGround
                  => renderedPosition(n)
                       = explode(machinery, aiResult, resolvedPositions, 0)[n]

\* C19: once the effects have run, a part the selected map has no entry for
\* is rendered at the position its catalog fields give it (its fallback
\* position), not at the origin
C19_NoSilentOrigin ==
    Flushed
        => \A n \in PartNames :
              finalPosition(n) = NoVec
                  => renderedPosition(n)
                       = fallbackPositions(machinery, parts, explodeFactor)[n]

\* every cached position is the one a resolution from an empty cache gives
\* under the constraints ps and the boxes
Coherent(ps, cache, boxes) ==
    \A n \in PartNames :
        cache[n] # NoVec
            => LET r == resolvePosition(n, ps, EmptyPositions, boxes, 1) IN
               r.ok /\ r.pos = cache[n]

\* C23: a registerMesh, setGlobalScale, updatePartConstraint, resolvePosition
\* or resolveAll call made on a coherent resolved-position cache leaves a
\* coherent cache: every entry equals the position resolved from an empty
\* cache under the constraints and boxes the call leaves.
C23_CacheCoherence ==
    [][(/\ ret'.op \in {"registerMesh", "setGlobalScale", "updatePartConstraint",
                        "resolvePosition", "resolveAll"}
        /\ Coherent(parts, resolvedPositions, boundingBoxCache))
       => Coherent(parts', resolvedPositions', boundingBoxCache')]_vars

\* C24: in whatever order the mesh-loaded callbacks arrive, once every mesh
\* is registered each bounding-box cache entry is that mesh's unit-scale box
\* multiplied by the current global scale.
C24_UniformScale ==
    (\A n \in PartNames : meshCache[n] # NoBox)
        => \A n \in PartNames :
              boundingBoxCache[n] = ScaledBox(ModelMesh(machinery, n), globalScale)

\* what the second resolver resolves for part n from an empty cache, when the
\* part objects hold ps
OtherResolves(ps, n) == resolvePosition(n, ps, EmptyPositions, NoBoxes, 1)

\* C25: an updatePartConstraint call on one resolver changes neither the
\* positions a second resolver, constructed from the same parts array,
\* resolves from an empty cache, nor the constraint fields of the parts of
\* that array.
C25_ResolverIsolation ==
    [][ret'.op = "updatePartConstraint"
        => /\ \A n \in PartNames : OtherResolves(parts', n) = OtherResolves(parts, n)
           /\ \A n \in PartNames : other'.given[n].constraint = parts'[n].constraint]_allVars

\* C26: after a caller changed a vector of the map resolveAll returned, or
\* deleted a key of that map, resolvePosition of that part returns the
\* position it had in the map when resolveAll returned it.
C26_ResolveAllSnapshot ==
    (ret.op = "resolvePosition" /\ ret.after \in {"mutateMap", "deleteMapKey"})
        => (ret.ok /\ ret.pos = ret.orig)

\* C21: the effect of ModelGroup_ai that applies an AI result (constraints,
\* resolveAll, exploded positions) runs to completion on every result the
\* service hands out: it never ends in an exception.
C21_EffectNeverThrows == EffectThrew \notin pending

\* forceFallback was called and retryAI has not been called since: no request
\* is issued in this state, so a request in flight was issued before it
Forced == useFallback /\ error = "Using fallback method"

\* C27: a response to a request issued before forceFallback never becomes the
\* hook's aiResult or positions: once forceFallback was called, aiResult
\* keeps its value and positions stays the one computed from it.
C27_NoStaleAnalysis ==
    [][Forced => (aiResult' \in {aiResult, NoResult}
                    /\ (aiResult = NoResult => positions' = positions))]_allVars

\* C28: after retryAI has cleared the cache of a machinery, the next
\* analyzeAssembly for that machinery does not answer from a cache, and right
\* after the clearing neither the memory cache nor localStorage holds the
\* entry analyzeAssembly saved for that machinery.
C28_RetryForcesFreshAnalysis ==
    /\ (service.op = "analyzeAssembly" /\ service.afterClear) => ~service.cached
    /\ (service.op = "clearCache" /\ service.id \in MachineryIds)
          => /\ cacheKeyVersion \o service.id \notin DOMAIN service.cache
             /\ storageKey(cacheKeyVersion \o service.id) \notin DOMAIN service.storage

(***************************************************************************)
(* The sequences of the assembly player                                     *)
(***************************************************************************)
\* the mate has a face missing or its transform reports no success
MateFails(assembly, mate) ==
    LET faceA == getFace(assembly, mate.partA, mate.faceA)
        faceB == getFace(assembly, mate.partB, mate.faceB)
    IN
    \/ faceA = NoFace
    \/ faceB = NoFace
    \/ ~calculateMateTransform(mate, faceA, faceB).success

\* the indices of the mates the steps come from
StepMates(steps) == {steps[k].mateId : k \in 1..Len(steps)}

\* mate i has its part A positioned: the base part, or the part B of an
\* earlier mate that did not fail and was itself positioned
RECURSIVE Positioned(_, _)
Positioned(assembly, i) ==
    LET mate == assembly.mates[i] IN
    \/ mate.partA = assembly.basePart
    \/ \E j \in 1..(i - 1) :
          /\ assembly.mates[j].partB = mate.partA
          /\ ~MateFails(assembly, assembly.mates[j])
          /\ Positioned(assembly, j)

\* C22: a mate that fails leaves no step in the assembly sequence and no
\* position for its part B in calculatePositionsAtFactor, and every mate that
\* does not fail is still processed: it has its step as soon as its part A is
\* positioned, and its part B has a position.
C22_FailedMatesSkipped ==
    /\ call.fn = "generateAssemblySequence" =>
          \A i \in 1..Len(call.assembly.mates) :
              (i \in StepMates(call.out.steps)) <=>
                  (~MateFails(call.assembly, call.assembly.mates[i])
                   /\ Positioned(call.assembly, i))
    /\ call.fn = "calculatePositionsAtFactor" =>
          \A n \in PartNames :
              (call.out[n].position # NoVec) <=>
                  \/ n = call.assembly.basePart
                  \/ \E i \in 1..Len(call.assembly.mates) :
                        /\ call.assembly.mates[i].partB = n
                        /\ ~MateFails(call.assembly, call.assembly.mates[i])

\* a failed mate comes first and the mate after it has its step
C22_Witness ==
    /\ call.fn = "generateAssemblySequence"
    /\ Len(call.assembly.mates) = 2
    /\ MateFails(call.assembly, call.assembly.mates[1])
    /\ StepMates(call.out.steps) = {2}

\* the keyframe times of the steps increase within each step and lie within
\* 0 .. totalDuration
WellTimed(sequence) ==
    \A k \in 1..Len(sequence.steps) :
        LET keyframes == sequence.steps[k].keyframes IN
        \A j \in 1..Len(keyframes) :
            /\ 0 <= keyframes[j].time
            /\ keyframes[j].time <= sequence.totalDuration
            /\ j > 1 => keyframes[j - 1].time < keyframes[j].time

\* C29: in every sequence generateAssemblySequence or generateExplodeSequence
\* returns, the keyframe times within each step are strictly increasing and
\* every keyframe time is within 0 .. totalDuration.
C29_KeyframeTimesWellFormed ==
    call.fn \in {"generateAssemblySequence", "generateExplodeSequence"} =>
        WellTimed(call.out)

\* the world position of a face's center on a part placed at position with
\* rotation
WorldCenter(face, position, rotation) ==
    Add(position, applyQuaternion(face.center, rotation))

\* the end keyframe of a step: where and how the step leaves its part
Placed(step) == step.keyframes[Len(step.keyframes)]

\* C30: for a coincident mate with offset 0 whose part A was placed by an
\* earlier step of the assembly sequence away from the origin, the position
\* stored for part B puts face B's center at the world position of face A's
\* center on part A as placed.
C30_ChainedMatesInWorld ==
    call.fn = "generateAssemblySequence" =>
        \A k \in 1..Len(call.out.steps), j \in 1..Len(call.out.steps) :
            LET step == call.out.steps[k]
                mate == call.assembly.mates[step.mateId]
                earlier == call.out.steps[j]
                faceA == getFace(call.assembly, mate.partA, mate.faceA)
                faceB == getFace(call.assembly, mate.partB, mate.faceB)
            IN
            ( /\ j < k
              /\ \A i \in (j + 1)..(k - 1) : call.out.steps[i].partId # mate.partA
              /\ earlier.partId = mate.partA
              /\ Placed(earlier).position # Zero
              /\ mate.type = "coincident"
              /\ mate.offset = 0 )
            => WorldCenter(faceB, Placed(step).position, Placed(step).rotation)
                 = WorldCenter(faceA, Placed(earlier).position, Placed(earlier).rotation)

====
